---- MODULE Spec2Model ----
(***************************************************************************)
(* Model of the connection-layer channel multiplexer (ChannelsState) of    *)
(* cluelessh-connection: the channel table, the two flow-control windows,  *)
(* the outbound queues and the packet / update queues.                     *)
(*                                                                         *)
(* Program state: packets_to_send, channel_updates, channels,              *)
(* next_channel_id, is_server.  `result` is the value returned by the last *)
(* recv_packet call, `panicked` records that a call aborted (assert!,      *)
(* unwrap, todo!, slice::chunks(0), arithmetic overflow check).            *)
(* History variables (not program state): out_log and upd_log record every *)
(* packet and update ever queued, hist the per-channel byte accounting,    *)
(* steps the number of calls so far that had an effect, budget the number  *)
(* of such calls a run of the model may make, last_call the latest call of *)
(* recv_packet, do_operation or create_channel, close_called the channel   *)
(* numbers do_operation has been called on with Close.                     *)
(*                                                                         *)
(* The transport layer below the multiplexer is modelled next to it:       *)
(* algorithm negotiation and packet framing are pure functions, applied to *)
(* arguments `args` with the values they return collected in `returned`.   *)
(* The framer and the server's state machine have the state of             *)
(* ServerConnection: server_state (its field `state`), packet_transport,   *)
(* plaintext_packets.  `wire` holds the bytes the client has written that  *)
(* recv_bytes has not been given yet, `client` the keys and the sequence   *)
(* number the client sends with, transport_log the history of the          *)
(* connection.  `driver` is the state of the tokio driver that owns the    *)
(* connection: its position in progress(), its table of channels and the   *)
(* bounded queues between it and the tasks of the host.                    *)
(***************************************************************************)
EXTENDS Integers, Sequences, FiniteSets, TLC

VARIABLES packets_to_send, channel_updates, channels, next_channel_id,
          is_server, result, panicked, out_log, upd_log, hist, steps, budget,
          last_call, close_called, args, returned,
          server_state, packet_transport, plaintext_packets, wire, client, transport_log,
          driver

vars == <<packets_to_send, channel_updates, channels, next_channel_id,
          is_server, result, panicked, out_log, upd_log, hist, steps, budget,
          last_call, close_called, args, returned,
          server_state, packet_transport, plaintext_packets, wire, client, transport_log,
          driver>>

\* the variables of the pure functions and of the transport layer
function_vars == <<args, returned>>
transport_vars == <<server_state, packet_transport, plaintext_packets, wire, client, transport_log>>
\* the variable of the tokio driver (cluelessh_tokio::server::ServerConnection)
driver_vars == <<driver>>

\* the variables the channel multiplexer neither reads nor writes
other_layers == <<function_vars, transport_vars, driver_vars>>

\* no transport is modelled next to the multiplexer or the pure functions
NoTransport ==
    /\ server_state = "None"
    /\ packet_transport = "None"
    /\ plaintext_packets = <<>>
    /\ wire = <<>>
    /\ client = "None"
    /\ transport_log = <<>>

\* no driver is modelled on top of the connection
NoDriver == driver = "None"

(***************************************************************************)
(* Bounds of the model.                                                    *)
(***************************************************************************)
MaxSteps == 3
MaxFlowSteps == 4
MaxInSteps == 4
MaxTotalSteps == 2
MaxChannels == 2

(***************************************************************************)
(* Program constants.                                                      *)
(***************************************************************************)
\* The largest value of the u32 fields and counters.  The checker's integers are
\* 32-bit signed, so the unsigned word is modelled 24 bits wide: sums of a few
\* words stay representable and overflow, checked_add and wrap-around keep
\* their shape.  Every program constant lies below it.
WordBits == 24
U32Max == 2^WordBits - 1
WindowRefillThreshold == 1000
CreateWindowSize == 2097152
CreateMaxPacketSize == 32768

None == -1
NoChannel == -1

Min(a, b) == IF a < b THEN a ELSE b

(***************************************************************************)
(* Input sets.                                                             *)
(***************************************************************************)
ExtCodes == {1, 2}
PeerChannels == {7}
ChannelTypes == {"session", "x11"}
RequestTypes == {"pty-req", "shell", "exec", "subsystem", "env", "signal", "bogus"}
ServerOnlyRequests == {"pty-req", "shell", "exec", "subsystem", "env", "signal"}
HostRequests == {"PtyReq", "Shell", "Exec", "Subsystem", "Env", "ExitStatus"}

(***************************************************************************)
(* Packets (cluelessh_transport::packet::Packet) by message type and       *)
(* fields; one record shape for all message types.                         *)
(***************************************************************************)
Packet(type, recipient, sender, window, max_packet, code, data) ==
    [type |-> type, recipient |-> recipient, sender |-> sender, window |-> window,
     max_packet |-> max_packet, code |-> code, data |-> data]

\* numbers::SSH_OPEN_UNKNOWN_CHANNEL_TYPE
SSH_OPEN_UNKNOWN_CHANNEL_TYPE == 3

new_msg_request_failure == Packet("REQUEST_FAILURE", NoChannel, NoChannel, 0, 0, None, <<>>)
\* the reason code travels in the code field
new_msg_channel_open_failure(recipient, reason_code) ==
    Packet("CHANNEL_OPEN_FAILURE", recipient, NoChannel, 0, 0, reason_code, <<>>)
new_msg_channel_open_confirmation(recipient, sender, window, max_packet) ==
    Packet("CHANNEL_OPEN_CONFIRMATION", recipient, sender, window, max_packet, None, <<>>)
new_msg_channel_open_session(sender, window, max_packet) ==
    Packet("CHANNEL_OPEN", NoChannel, sender, window, max_packet, None, <<>>)
new_msg_channel_window_adjust(recipient, bytes_to_add) ==
    Packet("CHANNEL_WINDOW_ADJUST", recipient, NoChannel, bytes_to_add, 0, None, <<>>)
new_msg_channel_data(recipient, data) ==
    Packet("CHANNEL_DATA", recipient, NoChannel, 0, 0, None, data)
new_msg_channel_extended_data(recipient, code, data) ==
    Packet("CHANNEL_EXTENDED_DATA", recipient, NoChannel, 0, 0, code, data)
new_msg_channel_eof(recipient) ==
    Packet("CHANNEL_EOF", recipient, NoChannel, 0, 0, None, <<>>)
new_msg_channel_close(recipient) ==
    Packet("CHANNEL_CLOSE", recipient, NoChannel, 0, 0, None, <<>>)
new_msg_channel_success(recipient) ==
    Packet("CHANNEL_SUCCESS", recipient, NoChannel, 0, 0, None, <<>>)
new_msg_channel_failure(recipient) ==
    Packet("CHANNEL_FAILURE", recipient, NoChannel, 0, 0, None, <<>>)
new_msg_channel_request(recipient, request) ==
    Packet("CHANNEL_REQUEST:" \o request, recipient, NoChannel, 0, 0, None, <<>>)

(***************************************************************************)
(* ChannelUpdate { number, kind }.  An inbound data payload is opaque to   *)
(* recv_packet, which copies it into the update: it is carried by its      *)
(* length `len`.  `detail` is the request type / channel kind.             *)
(***************************************************************************)
ChannelUpdate(number, kind, detail, len) ==
    [number |-> number, kind |-> kind, detail |-> detail, len |-> len,
     want_reply |-> FALSE]

\* ChannelUpdateKind::Request(ChannelRequest::.. { want_reply, .. })
RequestUpdate(number, request_type, want_reply) ==
    [ChannelUpdate(number, "Request", request_type, 0) EXCEPT !.want_reply = want_reply]

(***************************************************************************)
(* ChannelState: AwaitingConfirmation { .. } or Open(Channel).             *)
(***************************************************************************)
AwaitingConfirmation(our_window_size, our_max_packet_size, update_message) ==
    [state |-> "AwaitingConfirmation", we_closed |-> FALSE, peer_channel |-> 0,
     peer_window_size |-> 0, peer_max_packet_size |-> 0,
     our_window_size |-> our_window_size, our_max_packet_size |-> our_max_packet_size,
     our_window_size_increase_step |-> 0, queued_data_default |-> <<>>,
     queued_data_extended |-> [c \in {} |-> <<>>], update_message |-> update_message]

OpenChannel(peer_channel, peer_window_size, peer_max_packet_size, our_window_size, our_max_packet_size) ==
    [state |-> "Open", we_closed |-> FALSE, peer_channel |-> peer_channel,
     peer_window_size |-> peer_window_size, peer_max_packet_size |-> peer_max_packet_size,
     our_window_size |-> our_window_size, our_max_packet_size |-> our_max_packet_size,
     our_window_size_increase_step |-> our_window_size, queued_data_default |-> <<>>,
     queued_data_extended |-> [c \in {} |-> <<>>], update_message |-> "Session"]

\* what recv_packet returns: Ok(()) or Err(peer_error!(..)) with one of these messages
UnknownChannel == "unknown channel"
NotFullyOpened == "channel not fully opened"
WindowExceeded == "sent more data than the window allows"
PacketTooBig == "data bigger than allowed packet size"
ProtocolError == "protocol error"
ParseError == "parse error"
Errors == {UnknownChannel, NotFullyOpened, WindowExceeded, PacketTooBig, ProtocolError,
           ParseError}

\* HashMap::contains_key of validate_channel
validate_channel(number) == number \in DOMAIN channels

\* ChannelsState::channel: Ok only for a channel that is fully open
channel_ok(number) == number \in DOMAIN channels /\ channels[number].state = "Open"

\* the error of "validate_channel(..)?" followed by "channel(..)?"
ChannelError(number) ==
    IF ~validate_channel(number) THEN UnknownChannel ELSE NotFullyOpened

\* variant: the record stays in the table
RemoveChannelKept(number) == channels

\* HashMap::remove
RemoveChannel(number) == [n \in (DOMAIN channels) \ {number} |-> channels[n]]

\* HashMap::insert
InsertChannel(number, state) ==
    [n \in (DOMAIN channels) \cup {number} |-> IF n = number THEN state ELSE channels[n]]

(***************************************************************************)
(* send_data and send_data_packet.  Both work on one Channel record and    *)
(* return the record after the call, the packets pushed to packets_to_send *)
(* in order, and whether the call aborted.                                 *)
(***************************************************************************)
SendResult(channel, packets, panic) ==
    [channel |-> channel, packets |-> packets, panic |-> panic]

\* data.chunks(size), size > 0: consecutive pieces of `size` bytes, the last one shorter
RECURSIVE Chunks(_, _)
Chunks(data, size) ==
    IF Len(data) = 0 THEN <<>>
    ELSE IF Len(data) <= size THEN <<data>>
    ELSE <<SubSeq(data, 1, size)>> \o Chunks(SubSeq(data, size + 1, Len(data)), size)

\* the bytes of chunks[i..] in order ("for data in chunks { extend_from_slice }")
RECURSIVE RestOfChunks(_, _)
RestOfChunks(chunks, i) ==
    IF i > Len(chunks) THEN <<>> ELSE chunks[i] \o RestOfChunks(chunks, i + 1)

\* data.split_at(rest)
SplitAt(data, rest) ==
    [to_send |-> SubSeq(data, 1, rest), to_keep |-> SubSeq(data, rest + 1, Len(data))]

\* the asserts of send_data_packet
DataPacketAllowed(channel, data) ==
    /\ data # <<>>
    /\ channel.peer_max_packet_size >= Len(data)

\* the packet built by send_data_packet
DataPacket(channel, data, extended_code) ==
    IF extended_code # None
    THEN new_msg_channel_extended_data(channel.peer_channel, extended_code, data)
    ELSE new_msg_channel_data(channel.peer_channel, data)

\* variant: the rest is put in front of what the queue already holds
QueueRestInFront(channel, extended_code, bytes) ==
    IF extended_code # None
    THEN LET old == IF extended_code \in DOMAIN channel.queued_data_extended
                    THEN channel.queued_data_extended[extended_code] ELSE <<>>
         IN  [channel EXCEPT !.queued_data_extended =
                [c \in (DOMAIN channel.queued_data_extended) \cup {extended_code} |->
                    IF c = extended_code THEN bytes \o old
                    ELSE channel.queued_data_extended[c]]]
    ELSE [channel EXCEPT !.queued_data_default = bytes \o @]

\* "Queue the rest of the bytes": extend the default queue or the queue of the code
QueueRest(channel, extended_code, bytes) ==
    IF extended_code # None
    THEN LET old == IF extended_code \in DOMAIN channel.queued_data_extended
                    THEN channel.queued_data_extended[extended_code] ELSE <<>>
         IN  [channel EXCEPT !.queued_data_extended =
                [c \in (DOMAIN channel.queued_data_extended) \cup {extended_code} |->
                    IF c = extended_code THEN old \o bytes
                    ELSE channel.queued_data_extended[c]]]
    ELSE [channel EXCEPT !.queued_data_default = @ \o bytes]

\* variant: a chunk that fits whole is sent without charging the peer window
TakeWindowOnlyWhenExhausted(channel, len) ==
    IF len = channel.peer_window_size
    THEN [channel EXCEPT !.peer_window_size = 0]
    ELSE channel

\* "Some(space) => channel.peer_window_size = space"
TakeWindow(channel, len) == [channel EXCEPT !.peer_window_size = @ - len]

\* the loop "while let Some(data) = chunks.next()" from chunk i on
RECURSIVE SendChunks(_, _, _, _, _)
SendChunks(channel, chunks, i, extended_code, packets) ==
    IF i > Len(chunks) THEN SendResult(channel, packets, FALSE)
    ELSE
      LET data == chunks[i] IN
      IF channel.peer_window_size >= Len(data)
      THEN \* checked_sub is Some(space)
           LET taken == TakeWindow(channel, Len(data)) IN
           IF ~DataPacketAllowed(taken, data)
           THEN SendResult(taken, packets, TRUE)
           ELSE SendChunks(taken, chunks, i + 1, extended_code,
                           Append(packets, DataPacket(taken, data, extended_code)))
      ELSE \* checked_sub is None: send what fits, queue the rest and return
           LET rest == channel.peer_window_size
               split == SplitAt(data, rest)
               taken == IF split.to_send # <<>> THEN TakeWindow(channel, rest) ELSE channel
               sent == IF split.to_send # <<>>
                       THEN Append(packets, DataPacket(taken, split.to_send, extended_code))
                       ELSE packets
           IN  IF split.to_send # <<>> /\
                  (taken.peer_window_size # 0 \/ ~DataPacketAllowed(taken, split.to_send))
               THEN SendResult(taken, packets, TRUE)
               ELSE SendResult(
                      QueueRest(taken, extended_code,
                                split.to_keep \o RestOfChunks(chunks, i + 1)),
                      sent, FALSE)

\* variant: the data is not split into chunks of peer_max_packet_size
send_data_unsplit(channel, data, extended_code) ==
    IF data = <<>> \/ channel.peer_max_packet_size = 0
    THEN SendResult(channel, <<>>, TRUE)
    ELSE IF channel.peer_window_size >= Len(data)
    THEN SendResult(TakeWindow(channel, Len(data)),
                    <<DataPacket(channel, data, extended_code)>>, FALSE)
    ELSE LET split == SplitAt(data, channel.peer_window_size) IN
         SendResult(QueueRest(TakeWindow(channel, Len(split.to_send)), extended_code,
                              split.to_keep),
                    IF split.to_send # <<>>
                    THEN <<DataPacket(channel, split.to_send, extended_code)>> ELSE <<>>,
                    FALSE)

\* send_data: assert!(!data.is_empty()); data.chunks(peer_max_packet_size) aborts for size 0
send_data(channel, data, extended_code) ==
    IF data = <<>> \/ channel.peer_max_packet_size = 0
    THEN SendResult(channel, <<>>, TRUE)
    ELSE SendChunks(channel, Chunks(data, channel.peer_max_packet_size), 1,
                    extended_code, <<>>)

(***************************************************************************)
(* History bookkeeping.                                                    *)
(***************************************************************************)
Streams == {None} \cup ExtCodes

NewHist(peer_initial, peer_max_packet_size, our_initial) ==
    [submitted |-> [s \in Streams |-> <<>>], peer_initial |-> peer_initial,
     peer_max_packet_size |-> peer_max_packet_size,
     granted |-> 0, our_initial |-> our_initial, accepted |-> 0]

SetHist(number, h) ==
    [n \in (DOMAIN hist) \cup {number} |-> IF n = number THEN h ELSE hist[n]]

\* a packet in out_log: the local channel it was pushed for and the number of
\* effective calls made before the call that pushed it
Tagged(number, packets) ==
    [i \in 1..Len(packets) |-> [number |-> number, packet |-> packets[i], at |-> steps]]

(***************************************************************************)
(* Fragments shared by the handlers.                                       *)
(***************************************************************************)
\* a call is made on a ChannelsState that has not aborted
\* `at` is the number of effective calls made before this one
Call(name, number, kind) ==
    [name |-> name, number |-> number, kind |-> kind, at |-> steps]

Called(name, number, kind) ==
    /\ ~panicked
    /\ last_call' = Call(name, number, kind)
    /\ close_called' = IF name = "do_operation" /\ kind = "Close"
                       THEN close_called \cup {number} ELSE close_called
    /\ UNCHANGED <<is_server, budget, other_layers>>

\* the call changes the multiplexer: it counts against the budget of the model
Effect ==
    /\ steps < budget
    /\ steps' = steps + 1

\* packets_to_send.push_back(..) for each packet, on behalf of local channel `number`
Push(number, packets) ==
    /\ packets_to_send' = packets_to_send \o packets
    /\ out_log' = out_log \o Tagged(number, packets)

\* channel_updates.push_back(..)
Emit(updates) ==
    /\ channel_updates' = channel_updates \o updates
    /\ upd_log' = upd_log \o updates

\* recv_packet returns Err(peer_error!(..)) before having changed anything
ReturnErr(reason) ==
    /\ result' = reason
    /\ UNCHANGED <<packets_to_send, channel_updates, channels, next_channel_id,
                   panicked, out_log, upd_log, hist, steps>>

\* the call aborts (assert!, unwrap, expect, todo!, overflow check)
Abort ==
    /\ panicked' = TRUE
    /\ UNCHANGED <<packets_to_send, channel_updates, channels, next_channel_id,
                   result, out_log, upd_log, hist, steps>>

(***************************************************************************)
(* recv_packet, one action per message type.                               *)
(***************************************************************************)
\* a packet cut short, of any type: every parser error precedes the first mutation
RecvMalformed ==
    /\ Called("recv_packet", NoChannel, "malformed")
    /\ ReturnErr(ParseError)

\* SSH_MSG_GLOBAL_REQUEST
RecvGlobalRequest ==
    /\ Called("recv_packet", NoChannel, "GLOBAL_REQUEST")
    /\ Push(NoChannel, <<new_msg_request_failure>>)
    /\ result' = "Ok"
    /\ Effect
    /\ UNCHANGED <<channel_updates, upd_log, channels, next_channel_id, panicked, hist>>

\* variant: the counter wraps to 0 after the largest number
wrapping_add_one(id) == (id + 1) % (U32Max + 1)

\* "self.next_channel_id.0.checked_add(1)": None when the sum leaves the 32 bits
checked_add_one(id) == IF id + 1 > U32Max THEN None ELSE id + 1

\* the runs allocate a bounded number of channels: the first MaxChannels numbers
\* and the last two before the counter is exhausted
ChannelBound(id) == id < MaxChannels \/ id >= U32Max - 1

\* variant: every channel type is opened as a session
channel_kind_any(channel_type) == "Session"

\* "match channel_type": the ChannelKind of a type, "unknown" for the `_` arm
channel_kind(channel_type) == IF channel_type = "session" THEN "Session" ELSE "unknown"

\* SSH_MSG_CHANNEL_OPEN
RecvChannelOpen(channel_type, sender_channel, initial_window_size, max_packet_size) ==
    /\ Called("recv_packet", NoChannel, "CHANNEL_OPEN")
    /\ IF channel_kind(channel_type) = "unknown"
       THEN /\ Push(NoChannel, <<new_msg_channel_open_failure(
                                      sender_channel, SSH_OPEN_UNKNOWN_CHANNEL_TYPE)>>)
            /\ result' = "Ok"
            /\ Effect
            /\ UNCHANGED <<channel_updates, upd_log, channels, next_channel_id,
                           panicked, hist>>
       ELSE IF checked_add_one(next_channel_id) = None
       THEN ReturnErr(ProtocolError)
       ELSE LET our_number == next_channel_id IN
            /\ ChannelBound(next_channel_id)
            /\ next_channel_id' = checked_add_one(next_channel_id)
            /\ Push(our_number, <<new_msg_channel_open_confirmation(
                        sender_channel, our_number, initial_window_size, max_packet_size)>>)
            /\ channels' = InsertChannel(our_number,
                              OpenChannel(sender_channel, initial_window_size,
                                          max_packet_size, initial_window_size,
                                          max_packet_size))
            /\ Emit(<<ChannelUpdate(our_number, "Open", "Session", 0)>>)
            /\ hist' = SetHist(our_number, NewHist(initial_window_size, max_packet_size, initial_window_size))
            /\ result' = "Ok"
            /\ Effect
            /\ UNCHANGED panicked

\* variant: any channel of the table counts as awaiting its confirmation
in_table(number) == number \in DOMAIN channels

\* "let Some(&ChannelState::AwaitingConfirmation { .. }) = self.channels.get(..)"
awaiting_confirmation(number) ==
    number \in DOMAIN channels /\ channels[number].state = "AwaitingConfirmation"

\* SSH_MSG_CHANNEL_OPEN_CONFIRMATION
RecvChannelOpenConfirmation(our_channel, peer_channel, peer_window_size, peer_max_packet_size) ==
    /\ Called("recv_packet", our_channel, "CHANNEL_OPEN_CONFIRMATION")
    /\ IF ~awaiting_confirmation(our_channel)
       THEN ReturnErr(UnknownChannel)
       ELSE LET awaiting == channels[our_channel] IN
            /\ Emit(<<ChannelUpdate(our_channel, "Open", awaiting.update_message, 0)>>)
            /\ channels' = InsertChannel(our_channel,
                              OpenChannel(peer_channel, peer_window_size,
                                          peer_max_packet_size, awaiting.our_window_size,
                                          awaiting.our_max_packet_size))
            /\ hist' = SetHist(our_channel,
                               NewHist(peer_window_size, peer_max_packet_size,
                                       awaiting.our_window_size))
            /\ result' = "Ok"
            /\ Effect
            /\ UNCHANGED <<packets_to_send, out_log, next_channel_id, panicked>>

\* SSH_MSG_CHANNEL_OPEN_FAILURE
RecvChannelOpenFailure(our_channel) ==
    /\ Called("recv_packet", our_channel, "CHANNEL_OPEN_FAILURE")
    /\ IF ~awaiting_confirmation(our_channel)
       THEN ReturnErr(UnknownChannel)
       ELSE /\ Emit(<<ChannelUpdate(our_channel, "OpenFailed", "", 0)>>)
            /\ channels' = RemoveChannel(our_channel)
            /\ result' = "Ok"
            /\ Effect
            /\ UNCHANGED <<packets_to_send, out_log, next_channel_id, panicked, hist>>

(***************************************************************************)
(* SSH_MSG_CHANNEL_WINDOW_ADJUST: raise the peer window, then drain the    *)
(* default queue and after it the extended queues.                         *)
(***************************************************************************)
\* variant: a grant takes one byte out of a queue at most
drain_limit_one_byte(queue_len, peer_window_size) == Min(queue_len, Min(1, peer_window_size))

\* cmp::min(queue.len(), peer_window_size): how much of a queue is taken out
DrainLimit(queue_len, peer_window_size) == Min(queue_len, peer_window_size)

\* "if !channel.queued_data_default.is_empty() { .. splice(..limit, []) .. send_data }"
DrainDefault(channel) ==
    IF channel.queued_data_default = <<>>
    THEN SendResult(channel, <<>>, FALSE)
    ELSE LET queue == channel.queued_data_default
             limit == DrainLimit(Len(queue), channel.peer_window_size)
             data_to_send == SubSeq(queue, 1, limit)
             spliced == [channel EXCEPT
                            !.queued_data_default = SubSeq(queue, limit + 1, Len(queue))]
         IN  send_data(spliced, data_to_send, None)

\* the body of "for number in data_keys" for one extended code
DrainOneExtended(channel, number) ==
    LET queue == channel.queued_data_extended[number]
        limit == DrainLimit(Len(queue), channel.peer_window_size)
        data_to_send == SubSeq(queue, 1, limit)
        spliced == [channel EXCEPT
                       !.queued_data_extended[number] = SubSeq(queue, limit + 1, Len(queue))]
    IN  IF queue = <<>> THEN SendResult(channel, <<>>, FALSE)
        ELSE IF data_to_send = <<>> THEN SendResult(spliced, <<>>, FALSE)
        ELSE send_data(spliced, data_to_send, number)

\* the loop over data_keys (a sequence: the HashMap's key order) from position i on
RECURSIVE DrainExtended(_, _, _, _)
DrainExtended(channel, data_keys, i, packets) ==
    IF i > Len(data_keys) THEN SendResult(channel, packets, FALSE)
    ELSE LET r == DrainOneExtended(channel, data_keys[i]) IN
         IF r.panic THEN SendResult(r.channel, packets \o r.packets, TRUE)
         ELSE DrainExtended(r.channel, data_keys, i + 1, packets \o r.packets)

\* every order in which HashMap::keys() may yield the set S
KeyOrders(S) ==
    {f \in [1..Cardinality(S) -> S] : \A i, j \in 1..Cardinality(S) : i # j => f[i] # f[j]}

\* variant: the sum wraps around the word
window_after_wrapping_add(peer_window_size, bytes_to_add) ==
    (peer_window_size + bytes_to_add) % (U32Max + 1)

\* peer_window_size.checked_add(bytes_to_add)
WindowAfterAdjust(peer_window_size, bytes_to_add) == peer_window_size + bytes_to_add

RecvChannelWindowAdjust(our_channel, bytes_to_add) ==
    /\ Called("recv_packet", our_channel, "CHANNEL_WINDOW_ADJUST")
    /\ IF ~validate_channel(our_channel) \/ ~channel_ok(our_channel)
       THEN ReturnErr(ChannelError(our_channel))
       ELSE IF WindowAfterAdjust(channels[our_channel].peer_window_size, bytes_to_add) > U32Max
       THEN ReturnErr(ProtocolError)
       ELSE LET added == [channels[our_channel] EXCEPT
                            !.peer_window_size = WindowAfterAdjust(@, bytes_to_add)]
                first == DrainDefault(added)
            IN  IF first.panic THEN Abort
                ELSE \E data_keys \in KeyOrders(DOMAIN first.channel.queued_data_extended) :
                       LET r == DrainExtended(first.channel, data_keys, 1, first.packets) IN
                       IF r.panic THEN Abort
                       ELSE /\ channels' = [channels EXCEPT ![our_channel] = r.channel]
                            /\ Push(our_channel, r.packets)
                            /\ hist' = [hist EXCEPT ![our_channel].granted = @ + bytes_to_add]
                            /\ result' = "Ok"
                            /\ Effect
                            /\ UNCHANGED <<channel_updates, upd_log, next_channel_id,
                                           panicked>>

(***************************************************************************)
(* SSH_MSG_CHANNEL_DATA.  `len` is data.len().  When the refill            *)
(* "our_window_size += bytes_to_add" overflows the word, a build with      *)
(* overflow checks aborts and a build without them wraps around: both      *)
(* outcomes are possible.                                                  *)
(***************************************************************************)
\* "if channel.our_window_size < 1000"
NeedsRefill(our_window_size) == our_window_size < WindowRefillThreshold

\* variant: the length of the data is not checked against our window
WindowAllowsAnything(our_window_size, len) == TRUE

\* our_window_size.checked_sub(data.len()) is Some
WindowAllows(our_window_size, len) == our_window_size >= len

\* the value "our_window_size += bytes_to_add" leaves when it wraps around
WrappingAdd(a, b) == (a + b) % (U32Max + 1)

RecvChannelData(our_channel, len) ==
    /\ Called("recv_packet", our_channel, "CHANNEL_DATA")
    /\ IF ~validate_channel(our_channel) \/ ~channel_ok(our_channel)
       THEN ReturnErr(ChannelError(our_channel))
       ELSE LET channel == channels[our_channel] IN
            IF ~WindowAllows(channel.our_window_size, len)
            THEN ReturnErr(WindowExceeded)      \* checked_sub is None
            ELSE LET reduced == [channel EXCEPT !.our_window_size = @ - len] IN
                 IF reduced.our_max_packet_size < len
                 THEN \* the window stays decremented
                      /\ channels' = [channels EXCEPT ![our_channel] = reduced]
                      /\ result' = PacketTooBig
                      /\ Effect
                      /\ UNCHANGED <<packets_to_send, channel_updates, next_channel_id,
                                     panicked, out_log, upd_log, hist>>
                 ELSE LET bytes_to_add == reduced.our_window_size_increase_step
                          refill == NeedsRefill(reduced.our_window_size)
                          overflows == refill /\ reduced.our_window_size + bytes_to_add > U32Max
                      IN  \/ overflows /\ Abort
                          \/ /\ channels' = [channels EXCEPT ![our_channel] =
                                    IF refill
                                    THEN [reduced EXCEPT
                                            !.our_window_size = WrappingAdd(@, bytes_to_add)]
                                    ELSE reduced]
                             /\ Push(our_channel,
                                     IF refill
                                     THEN <<new_msg_channel_window_adjust(
                                               channel.peer_channel, bytes_to_add)>>
                                     ELSE <<>>)
                             /\ Emit(<<ChannelUpdate(our_channel, "Data", "", len)>>)
                             /\ hist' = [hist EXCEPT ![our_channel].accepted = @ + len]
                             /\ result' = "Ok"
                             /\ Effect
                             /\ UNCHANGED <<next_channel_id, panicked>>

\* SSH_MSG_CHANNEL_EOF, SSH_MSG_CHANNEL_SUCCESS, SSH_MSG_CHANNEL_FAILURE:
\* validate_channel, then the update (kind is "Eof", "Success" or "Failure")
RecvChannelSignal(our_channel, kind) ==
    /\ Called("recv_packet", our_channel, kind)
    /\ IF ~validate_channel(our_channel)
       THEN ReturnErr(UnknownChannel)
       ELSE /\ Emit(<<ChannelUpdate(our_channel, kind, "", 0)>>)
            /\ result' = "Ok"
            /\ Effect
            /\ UNCHANGED <<packets_to_send, out_log, channels, next_channel_id,
                           panicked, hist>>

\* variant: a received CHANNEL_CLOSE is always answered
AnswersCloseAlways(channel) == TRUE

\* "if !channel.we_closed": whether a received CHANNEL_CLOSE is answered with one
AnswersClose(channel) == ~channel.we_closed

\* SSH_MSG_CHANNEL_CLOSE
RecvChannelClose(our_channel) ==
    /\ Called("recv_packet", our_channel, "CHANNEL_CLOSE")
    /\ IF ~validate_channel(our_channel) \/ ~channel_ok(our_channel)
       THEN ReturnErr(ChannelError(our_channel))
       ELSE LET channel == channels[our_channel] IN
            /\ Push(our_channel,
                    IF AnswersClose(channel)
                    THEN <<new_msg_channel_close(channel.peer_channel)>> ELSE <<>>)
            /\ channels' = RemoveChannel(our_channel)
            /\ Emit(<<ChannelUpdate(our_channel, "Closed", "", 0)>>)
            /\ result' = "Ok"
            /\ Effect
            /\ UNCHANGED <<next_channel_id, panicked, hist>>

\* SSH_MSG_CHANNEL_REQUEST
RecvChannelRequest(our_channel, request_type, want_reply) ==
    /\ Called("recv_packet", our_channel, "CHANNEL_REQUEST")
    /\ IF ~validate_channel(our_channel) \/ ~channel_ok(our_channel)
       THEN ReturnErr(ChannelError(our_channel))
       ELSE IF request_type \in ServerOnlyRequests /\ ~is_server
       THEN ReturnErr(ProtocolError)
       ELSE IF request_type = "signal"
       THEN /\ result' = "Ok"
            /\ Effect
            /\ UNCHANGED <<packets_to_send, channel_updates, channels, next_channel_id,
                           panicked, out_log, upd_log, hist>>
       ELSE IF request_type \notin ServerOnlyRequests
       THEN \* unknown request type: send_channel_failure(peer_channel)
            /\ Push(our_channel,
                    <<new_msg_channel_failure(channels[our_channel].peer_channel)>>)
            /\ result' = "Ok"
            /\ Effect
            /\ UNCHANGED <<channel_updates, upd_log, channels, next_channel_id,
                           panicked, hist>>
       ELSE /\ Emit(<<RequestUpdate(our_channel, request_type, want_reply)>>)
            /\ result' = "Ok"
            /\ Effect
            /\ UNCHANGED <<packets_to_send, out_log, channels, next_channel_id,
                           panicked, hist>>

\* SSH_MSG_CHANNEL_EXTENDED_DATA has no arm of its own in recv_packet: the packet,
\* whatever channel, data_type_code and data it carries, falls to the `_` arm
RecvChannelExtendedData(our_channel, data_type_code, len) ==
    /\ Called("recv_packet", our_channel, "CHANNEL_EXTENDED_DATA")
    /\ Abort

\* any other message type (SSH_MSG_CHANNEL_EXTENDED_DATA among them): todo!()
RecvUnsupported ==
    /\ Called("recv_packet", NoChannel, "unsupported")
    /\ Abort

(***************************************************************************)
(* Host side: packets_to_send, next_channel_update, create_channel,        *)
(* do_operation.                                                           *)
(***************************************************************************)
\* packets_to_send(): drains the whole queue
PacketsToSend ==
    /\ ~panicked
    /\ packets_to_send # <<>>
    /\ packets_to_send' = <<>>
    /\ UNCHANGED <<channel_updates, channels, next_channel_id, is_server, result,
                   panicked, out_log, upd_log, hist, steps, budget, last_call,
                   close_called, other_layers>>

\* next_channel_update(): pops the oldest update
NextChannelUpdate ==
    /\ ~panicked
    /\ channel_updates # <<>>
    /\ channel_updates' = Tail(channel_updates)
    /\ UNCHANGED <<packets_to_send, channels, next_channel_id, is_server, result,
                   panicked, out_log, upd_log, hist, steps, budget, last_call,
                   close_called, other_layers>>

\* create_channel(ChannelKind::Session)
CreateChannel ==
    /\ Called("create_channel", NoChannel, "Session")
    /\ IF checked_add_one(next_channel_id) = None
       THEN Abort
       ELSE LET our_number == next_channel_id IN
            /\ ChannelBound(next_channel_id)
            /\ next_channel_id' = checked_add_one(next_channel_id)
            /\ Push(our_number, <<new_msg_channel_open_session(
                                      our_number, CreateWindowSize, CreateMaxPacketSize)>>)
            /\ channels' = InsertChannel(our_number,
                              AwaitingConfirmation(CreateWindowSize, CreateMaxPacketSize,
                                                   "Session"))
            /\ Effect
            /\ UNCHANGED <<channel_updates, upd_log, result, panicked, hist>>

\* variant: only the first early return of do_operation, we_closed is not looked at
DroppedWhenMissing(number) == ~channel_ok(number)

\* the two early returns of do_operation: the operation is dropped
Dropped(number) == ~channel_ok(number) \/ channels[number].we_closed

\* do_operation with nothing done
DropOperation ==
    UNCHANGED <<packets_to_send, channel_updates, channels, next_channel_id, result,
                panicked, out_log, upd_log, hist, steps>>

\* the operations that push one packet and change nothing else:
\* Success, Failure, Eof, Request(PtyReq | Shell | ExitStatus)
SimplePacket(kind, request, peer) ==
    CASE kind = "Success" -> new_msg_channel_success(peer)
      [] kind = "Failure" -> new_msg_channel_failure(peer)
      [] kind = "Eof" -> new_msg_channel_eof(peer)
      [] kind = "Request" -> new_msg_channel_request(peer, request)

\* variant: the Close operation does not record that we closed
MarkClosedForgotten(channel) == channel

\* "channel.we_closed = true"
MarkClosed(channel) == [channel EXCEPT !.we_closed = TRUE]

\* op is [number, kind, code, data, request]
DoOperation(op) ==
    /\ Called("do_operation", op.number, op.kind)
    /\ IF Dropped(op.number) THEN DropOperation
       ELSE LET channel == channels[op.number]
                peer == channel.peer_channel
            IN
            CASE op.kind \in {"Success", "Failure", "Eof"}
                 \/ (op.kind = "Request" /\ op.request \in {"PtyReq", "Shell", "ExitStatus"}) ->
                   /\ Push(op.number, <<SimplePacket(op.kind, op.request, peer)>>)
                   /\ Effect
                   /\ UNCHANGED <<channel_updates, upd_log, channels, next_channel_id,
                                  result, panicked, hist>>
              [] op.kind = "Request" /\ op.request \notin {"PtyReq", "Shell", "ExitStatus"} ->
                   Abort       \* todo!("exec"), todo!("subsystem"), todo!("env")
              [] op.kind \in {"Data", "ExtendedData"} ->
                   LET r == send_data(channel, op.data, op.code) IN
                   IF r.panic THEN Abort
                   ELSE /\ channels' = [channels EXCEPT ![op.number] = r.channel]
                        /\ Push(op.number, r.packets)
                        /\ Effect
                        /\ hist' = [hist EXCEPT ![op.number].submitted[op.code] =
                                        @ \o op.data]
                        /\ UNCHANGED <<channel_updates, upd_log, next_channel_id,
                                       result, panicked>>
              [] op.kind = "Close" ->
                   /\ Push(op.number, <<new_msg_channel_close(peer)>>)
                   /\ Effect
                   /\ channels' = [channels EXCEPT ![op.number] = MarkClosed(@)]
                   /\ UNCHANGED <<channel_updates, upd_log, next_channel_id, result,
                                  panicked, hist>>

(***************************************************************************)
(* The inputs of the calls.                                                *)
(***************************************************************************)
\* every local number allocated so far: of the channels in the table and of the
\* channels that were removed from it
ChannelNumbers == 0..(next_channel_id - 1)

\* The payload of a host Data / ExtendedData operation of `len` bytes.  send_data
\* never looks at the value of a byte, so the bytes carry their position in the
\* channel's submission order: any loss, duplication or reordering shows.
SubmittedSoFar(number) ==
    IF number \in DOMAIN hist
    THEN LET sub == hist[number].submitted IN Len(sub[None]) + Len(sub[1]) + Len(sub[2])
    ELSE 0

Payload(number, len) == [i \in 1..len |-> SubmittedSoFar(number) + i]

Operation(number, kind, code, data, request) ==
    [number |-> number, kind |-> kind, code |-> code, data |-> data, request |-> request]

\* host operations without payload
PlainOperations(kinds) == {Operation(n, k, None, <<>>, "") : n \in ChannelNumbers, k \in kinds}

RequestOperations(requests) ==
    {Operation(n, "Request", None, <<>>, r) : n \in ChannelNumbers, r \in requests}

DataOperations(lens) ==
    {Operation(n, "Data", None, Payload(n, l), "") : n \in ChannelNumbers, l \in lens}

ExtendedDataOperations(codes, lens) ==
    {Operation(n, "ExtendedData", c, Payload(n, l), "") :
        n \in ChannelNumbers, c \in codes, l \in lens}

(***************************************************************************)
(* Spec: the life cycle of channels, with windows and packet sizes of one  *)
(* byte.  The peer opens channels, answers the opening of channels we      *)
(* created, sends data, requests, EOF, SUCCESS, FAILURE and CLOSE; the     *)
(* host creates channels and issues every kind of operation.  Packets and  *)
(* operations name any number allocated so far.                            *)
(***************************************************************************)
\* ChannelsState::new, and the history of a run that has made no call
ChannelsNew ==
    /\ packets_to_send = <<>>
    /\ channel_updates = <<>>
    /\ channels = [n \in {} |-> 0]
    /\ next_channel_id = 0
    /\ is_server \in BOOLEAN
    /\ result = "None"
    /\ panicked = FALSE
    /\ out_log = <<>>
    /\ upd_log = <<>>
    /\ hist = [n \in {} |-> 0]
    /\ steps = 0
    /\ last_call = Call("new", NoChannel, "")
    /\ close_called = {}

Init ==
    /\ ChannelsNew
    /\ budget \in {MaxSteps, MaxFlowSteps, MaxInSteps, MaxTotalSteps}
    /\ args = <<>>
    /\ returned = <<>>
    /\ NoTransport
    /\ NoDriver

InitLife == Init /\ is_server = TRUE /\ budget = MaxSteps

LifeOperations ==
    PlainOperations({"Success", "Failure", "Eof", "Close"})
    \cup RequestOperations({"Shell", "Exec"})
    \cup DataOperations({1})
    \cup ExtendedDataOperations({1}, {1})

Next ==
    \/ \E s \in PeerChannels : RecvChannelOpen("session", s, 1, 1)
    \/ \E n \in ChannelNumbers, s \in PeerChannels :
          RecvChannelOpenConfirmation(n, s, 1, 1)
    \/ \E n \in ChannelNumbers : RecvChannelOpenFailure(n)
    \/ \E n \in ChannelNumbers : RecvChannelWindowAdjust(n, 1)
    \/ \E n \in ChannelNumbers : RecvChannelData(n, 1)
    \/ \E n \in ChannelNumbers, k \in {"Eof", "Success", "Failure"} :
          RecvChannelSignal(n, k)
    \/ \E n \in ChannelNumbers : RecvChannelClose(n)
    \/ \E n \in ChannelNumbers, r \in BOOLEAN : RecvChannelRequest(n, "shell", r)
    \/ CreateChannel
    \/ \E op \in LifeOperations : DoOperation(op)

Spec == InitLife /\ [][Next]_vars

(***************************************************************************)
(* SpecFlow: outbound flow control on one channel.  The peer opens a       *)
(* channel with a small window and packet size, or confirms the channel we *)
(* created; the host sends data on the default and the extended streams    *)
(* and closes; the peer grants window and closes.                          *)
(***************************************************************************)
FlowWindows == {0, 1, 2}
FlowPacketSizes == {1, 2}
FlowGrants == {0, 1, 2}
FlowLens == {0, 1, 2, 3}

InitFlow == Init /\ is_server = TRUE /\ budget = MaxFlowSteps

\* the channels in the table
LiveNumbers == DOMAIN channels

FlowOperations ==
    {Operation(n, "Close", None, <<>>, "") : n \in LiveNumbers}
    \cup {Operation(n, "Data", None, Payload(n, l), "") :
            n \in LiveNumbers, l \in FlowLens}
    \cup {Operation(n, "ExtendedData", c, Payload(n, l), "") :
            n \in LiveNumbers, c \in ExtCodes, l \in FlowLens \ {0}}

\* no channel has been opened or created yet
NoChannelYet == next_channel_id = 0

NextFlow ==
    \/ /\ NoChannelYet
       /\ \E s \in PeerChannels, w \in FlowWindows, m \in FlowPacketSizes :
             RecvChannelOpen("session", s, w, m)
    \/ NoChannelYet /\ CreateChannel
    \/ \E n \in LiveNumbers, s \in PeerChannels, w \in {0, 2} :
          RecvChannelOpenConfirmation(n, s, w, 2)
    \/ \E n \in LiveNumbers, b \in FlowGrants : RecvChannelWindowAdjust(n, b)
    \/ \E n \in LiveNumbers : RecvChannelClose(n)
    \/ \E op \in FlowOperations : DoOperation(op)

SpecFlow == InitFlow /\ [][NextFlow]_vars

(***************************************************************************)
(* SpecIn: inbound flow control on one channel.  The peer opens a channel  *)
(* with a window around the refill threshold or the largest word, or       *)
(* confirms the channel we created, and sends data of lengths around the   *)
(* window and the threshold; the host reads both queues and closes.        *)
(***************************************************************************)
InWindows == {WindowRefillThreshold - 1, 2 * WindowRefillThreshold, U32Max}
InPacketSizes == {WindowRefillThreshold, 2 * WindowRefillThreshold, U32Max}
InLens == {0, 1, WindowRefillThreshold - 1, WindowRefillThreshold,
           2 * WindowRefillThreshold, U32Max - WindowRefillThreshold + 1}

InitIn == Init /\ is_server = TRUE /\ budget = MaxInSteps

NextIn ==
    \/ /\ NoChannelYet
       /\ \E s \in PeerChannels, w \in InWindows, m \in InPacketSizes :
             RecvChannelOpen("session", s, w, m)
    \/ NoChannelYet /\ CreateChannel
    \/ \E n \in LiveNumbers, s \in PeerChannels : RecvChannelOpenConfirmation(n, s, 1, 1)
    \/ \E n \in ChannelNumbers, l \in InLens : RecvChannelData(n, l)
    \/ \E n \in LiveNumbers : RecvChannelClose(n)
    \/ \E n \in LiveNumbers : DoOperation(Operation(n, "Close", None, <<>>, ""))
    \/ PacketsToSend
    \/ NextChannelUpdate

SpecIn == InitIn /\ [][NextIn]_vars

(***************************************************************************)
(* What the logs say about one local channel.                              *)
(***************************************************************************)
\* the stream a packet carries bytes of: None for CHANNEL_DATA, the code for
\* CHANNEL_EXTENDED_DATA
IsDataPacket(packet) == packet.type \in {"CHANNEL_DATA", "CHANNEL_EXTENDED_DATA"}

OnStream(entry, number, stream) ==
    /\ entry.number = number
    /\ IsDataPacket(entry.packet)
    /\ entry.packet.code = stream

\* the payloads of the data packets of a stream of a channel among log[1..i], in order
RECURSIVE DataSentUpTo(_, _, _, _)
DataSentUpTo(log, i, number, stream) ==
    IF i = 0 THEN <<>>
    ELSE DataSentUpTo(log, i - 1, number, stream)
         \o (IF OnStream(log[i], number, stream) THEN log[i].packet.data ELSE <<>>)

DataSent(number, stream) == DataSentUpTo(out_log, Len(out_log), number, stream)

BytesSent(number) ==
    Len(DataSent(number, None)) + Len(DataSent(number, 1)) + Len(DataSent(number, 2))

\* the bytes a channel still holds for a stream
Queued(channel, stream) ==
    IF stream = None THEN channel.queued_data_default
    ELSE IF stream \in DOMAIN channel.queued_data_extended
    THEN channel.queued_data_extended[stream]
    ELSE <<>>

\* how many packets of a type the channel has been sent
CountOf(number, type) ==
    Cardinality({i \in 1..Len(out_log) :
                    out_log[i].number = number /\ out_log[i].packet.type = type})

OpenNumbers == {n \in DOMAIN channels : channels[n].state = "Open"}

(***************************************************************************)
(* C1: on every open channel and for every stream (the default one and     *)
(* each extended code), the payloads of the data packets emitted so far,   *)
(* followed by the bytes still queued, are the submitted payloads in call  *)
(* order.                                                                  *)
(***************************************************************************)
C1_OutboundOrder ==
    \A n \in OpenNumbers : \A s \in Streams :
        DataSent(n, s) \o Queued(channels[n], s) = hist[n].submitted[s]

\* bytes went out before and after a grant, in several packets, and some still wait
C1_Witness ==
    \E n \in OpenNumbers :
        /\ hist[n].granted > 0
        /\ Len(DataSent(n, None)) > hist[n].peer_initial
        /\ Len(DataSent(n, None)) >= 2
        /\ channels[n].queued_data_default # <<>>

(***************************************************************************)
(* C2: on every channel the data bytes emitted never exceed the peer's     *)
(* initial window plus the window granted, and while the channel is open   *)
(* peer_window_size is exactly initial + granted - sent, and not negative. *)
(***************************************************************************)
C2_PeerWindowRespected ==
    /\ \A n \in DOMAIN hist : BytesSent(n) <= hist[n].peer_initial + hist[n].granted
    /\ \A n \in OpenNumbers :
          /\ channels[n].peer_window_size =
                hist[n].peer_initial + hist[n].granted - BytesSent(n)
          /\ channels[n].peer_window_size >= 0

\* the whole window, initial and granted, has been used and bytes still wait
C2_Witness ==
    \E n \in OpenNumbers :
        /\ hist[n].granted > 0
        /\ hist[n].peer_initial > 0
        /\ BytesSent(n) = hist[n].peer_initial + hist[n].granted
        /\ channels[n].queued_data_default # <<>>

(***************************************************************************)
(* C3: every data packet emitted for a channel carries at least one byte   *)
(* and at most the peer's max packet size of that channel.                 *)
(***************************************************************************)
C3_PacketSize ==
    \A i \in 1..Len(out_log) :
        IsDataPacket(out_log[i].packet) =>
            /\ Len(out_log[i].packet.data) >= 1
            /\ Len(out_log[i].packet.data) <= hist[out_log[i].number].peer_max_packet_size

\* a payload larger than the max packet size went out in full-size packets, one of
\* them after a grant drained the queue
C3_Witness ==
    \E n \in DOMAIN hist :
        /\ hist[n].granted > 0
        /\ Len(hist[n].submitted[None]) > hist[n].peer_max_packet_size
        /\ \E i, j \in 1..Len(out_log) :
              /\ i < j
              /\ OnStream(out_log[i], n, None) /\ OnStream(out_log[j], n, None)
              /\ Len(out_log[j].packet.data) = hist[n].peer_max_packet_size
              /\ hist[n].peer_max_packet_size > 1

(***************************************************************************)
(* Inbound accounting of one local channel.                                *)
(***************************************************************************)
\* the sum of the deltas of the CHANNEL_WINDOW_ADJUST packets among log[1..i]
\* emitted for a channel
RECURSIVE AdjustSumUpTo(_, _, _)
AdjustSumUpTo(log, i, number) ==
    IF i = 0 THEN 0
    ELSE AdjustSumUpTo(log, i - 1, number)
         + (IF log[i].number = number /\ log[i].packet.type = "CHANNEL_WINDOW_ADJUST"
            THEN log[i].packet.window ELSE 0)

AdjustSum(number) == AdjustSumUpTo(out_log, Len(out_log), number)

\* what the peer has been allowed to send on the channel so far
Advertised(number) == hist[number].our_initial + AdjustSum(number)

(***************************************************************************)
(* C4: on every channel the bytes of the accepted CHANNEL_DATA packets     *)
(* never exceed our advertised initial window plus the deltas of the       *)
(* CHANNEL_WINDOW_ADJUST packets emitted for it, and a CHANNEL_DATA that   *)
(* would exceed it returns an error and yields no update.                  *)
(***************************************************************************)
C4_Sound == \A n \in DOMAIN hist : hist[n].accepted <= Advertised(n)

C4_Rejects ==
    \A n \in OpenNumbers, l \in InLens :
        (/\ last_call'.kind = "CHANNEL_DATA"
         /\ hist[n].accepted + l > Advertised(n)
         /\ RecvChannelData(n, l))
            => (result' \in Errors /\ upd_log' = upd_log /\ hist' = hist)

\* C4: after every call the accepted bytes of every channel are within what was
\* advertised for it, and a CHANNEL_DATA that would exceed it is rejected
C4_InboundWindow == [][C4_Sound' /\ C4_Rejects]_vars

\* data was accepted before and after a refill, beyond the initial window, and the
\* latest packet was refused for exceeding what is advertised
C4_Witness ==
    \E n \in OpenNumbers :
        /\ AdjustSum(n) > 0
        /\ hist[n].accepted > hist[n].our_initial
        /\ last_call = Call("recv_packet", n, "CHANNEL_DATA")
        /\ result = WindowExceeded

(***************************************************************************)
(* C5: an accepted CHANNEL_DATA emits a CHANNEL_WINDOW_ADJUST exactly when *)
(* our window less the data length is below 1000; the delta of the adjust  *)
(* is the window first advertised for the channel and our window is raised *)
(* by that delta; otherwise no packet is emitted and our window is only    *)
(* reduced by the data length.                                             *)
(***************************************************************************)
C5_Accepts(n, l) ==
    /\ RecvChannelData(n, l)
    /\ result' = "Ok"
    /\ ~panicked'

C5_Refilled(n, l) ==
    LET after == channels[n].our_window_size - l
        delta == hist[n].our_initial
    IN  IF after < 1000
        THEN /\ out_log' = out_log \o Tagged(n,
                    <<new_msg_channel_window_adjust(channels[n].peer_channel, delta)>>)
             /\ channels'[n].our_window_size = after + delta
        ELSE /\ out_log' = out_log
             /\ channels'[n].our_window_size = after

\* C5: every accepted CHANNEL_DATA refills exactly when our window less the data
\* length is below 1000, by the window first advertised, and raises our window by it
C5_Refill ==
    [][\A n \in OpenNumbers, l \in InLens :
          C5_Accepts(n, l) => C5_Refilled(n, l)]_vars

\* what holds of the refill: the same, for the calls whose raised window fits a word
C5_RefillWithoutOverflow ==
    [][\A n \in OpenNumbers, l \in InLens :
          (/\ C5_Accepts(n, l)
           /\ channels[n].our_window_size - l + hist[n].our_initial <= U32Max)
              => C5_Refilled(n, l)]_vars

(***************************************************************************)
(* C6: consecutive host Close operations on an open channel emit exactly   *)
(* one CHANNEL_CLOSE: after a Close on an open channel that channel has    *)
(* been sent one CHANNEL_CLOSE, and a Close that follows a Close on it     *)
(* queues no packet and changes nothing.                                   *)
(***************************************************************************)
CloseOperation(n) == Operation(n, "Close", None, <<>>, "")

\* the latest call was do_operation(Close) on channel n
JustClosed(n) ==
    /\ last_call.name = "do_operation"
    /\ last_call.kind = "Close"
    /\ last_call.number = n

C6_ExactlyOne ==
    \A n \in OpenNumbers : JustClosed(n) => CountOf(n, "CHANNEL_CLOSE") = 1

C6_Repeat ==
    \A n \in OpenNumbers :
        (JustClosed(n) /\ DoOperation(CloseOperation(n)))
            => UNCHANGED <<packets_to_send, channel_updates, channels, next_channel_id,
                           result, panicked, out_log, upd_log, hist>>

\* C6: after a Close on an open channel exactly one CHANNEL_CLOSE has been sent for
\* it, and a Close right after a Close on it changes nothing
C6_CloseIdempotent == [][C6_ExactlyOne' /\ C6_Repeat]_vars

\* a Close was dropped right after the Close that sent the one CHANNEL_CLOSE
C6_Witness ==
    \E n \in OpenNumbers :
        /\ JustClosed(n)
        /\ last_call.at = steps
        /\ CountOf(n, "CHANNEL_CLOSE") = 1
        /\ \E i \in 1..Len(out_log) :
              /\ out_log[i].number = n
              /\ out_log[i].packet.type = "CHANNEL_CLOSE"
              /\ out_log[i].at = steps - 1

(***************************************************************************)
(* C7: once do_operation has been called with Close on a channel number,   *)
(* or the Closed update of the number has been emitted (a peer             *)
(* CHANNEL_CLOSE was processed), do_operation of any kind on that number   *)
(* queues no packet, emits no update, does not abort and leaves the        *)
(* channel table, the windows and the queues unchanged.                    *)
(***************************************************************************)
ClosedEmitted(n) ==
    \E i \in 1..Len(upd_log) : upd_log[i].number = n /\ upd_log[i].kind = "Closed"

\* the step is a call of do_operation on channel number n
OperatedOn(n) ==
    /\ last_call'.name = "do_operation"
    /\ last_call'.number = n

\* the step is the call do_operation(op)
Operated(op) ==
    /\ last_call'.name = "do_operation"
    /\ last_call'.number = op.number
    /\ last_call'.kind = op.kind
    /\ DoOperation(op)

\* do_operation has done nothing
OperationDropped ==
    UNCHANGED <<packets_to_send, channel_updates, channels, next_channel_id,
                panicked, out_log, upd_log, hist>>

C8_AtMostOne == \A n \in ChannelNumbers : CountOf(n, "CHANNEL_CLOSE") <= 1

C8_Answer ==
    \A n \in OpenNumbers :
        RecvChannelClose(n) =>
            /\ out_log' = out_log \o
                  (IF CountOf(n, "CHANNEL_CLOSE") = 0
                   THEN Tagged(n, <<new_msg_channel_close(channels[n].peer_channel)>>)
                   ELSE <<>>)
            /\ n \notin DOMAIN channels'
            /\ upd_log' = Append(upd_log, ChannelUpdate(n, "Closed", "", 0))

\* C8: a received CHANNEL_CLOSE is answered exactly when no CHANNEL_CLOSE was sent
\* for the channel, and no channel is ever sent more than one
C8_SingleClose == [][C8_AtMostOne' /\ C8_Answer]_vars

\* a CHANNEL_CLOSE was received and processed for a channel the host had closed
\* before: the only CHANNEL_CLOSE is the earlier one
C8_Witness ==
    \E n \in ChannelNumbers :
        /\ last_call.name = "recv_packet"
        /\ last_call.kind = "CHANNEL_CLOSE"
        /\ last_call.number = n
        /\ result = "Ok"
        /\ ClosedEmitted(n)
        /\ CountOf(n, "CHANNEL_CLOSE") = 1
        /\ \E i \in 1..Len(out_log) :
              /\ out_log[i].number = n
              /\ out_log[i].packet.type = "CHANNEL_CLOSE"
              /\ out_log[i].at < last_call.at

(***************************************************************************)
(* C9: no Data, Request, Eof, Success, Failure or Closed update of a       *)
(* channel number is emitted before an Open update of that number.         *)
(***************************************************************************)
AfterOpenKinds == {"Data", "Request", "Eof", "Success", "Failure", "Closed"}

\* C9: every Data, Request, Eof, Success, Failure or Closed update comes after an Open
\* update of the same number
C9_OpenFirst ==
    \A i \in 1..Len(upd_log) :
        upd_log[i].kind \in AfterOpenKinds =>
            \E j \in 1..(i - 1) :
                upd_log[j].number = upd_log[i].number /\ upd_log[j].kind = "Open"

(***************************************************************************)
(* C10: every channel number gets at most one Closed update and no update  *)
(* of any kind after it, and a packet that names the number after its      *)
(* Closed update returns the unknown-channel error and changes nothing.    *)
(***************************************************************************)
C10_Terminal ==
    \A i, j \in 1..Len(upd_log) :
        (i < j /\ upd_log[i].kind = "Closed") => upd_log[j].number # upd_log[i].number

C10_Rejected ==
    \A n \in ChannelNumbers :
        (ClosedEmitted(n) /\ last_call'.name = "recv_packet" /\ last_call'.number = n)
            => /\ result' = UnknownChannel
               /\ UNCHANGED <<packets_to_send, channel_updates, channels, next_channel_id,
                              panicked, out_log, upd_log, hist>>

\* C10: no update of a number follows its Closed update, and a packet naming the
\* number after it is rejected as an unknown channel
C10_ClosedTerminal == [][C10_Terminal' /\ C10_Rejected]_vars

\* a packet named a channel after its Closed update and was refused
C10_Witness ==
    \E n \in ChannelNumbers :
        /\ ClosedEmitted(n)
        /\ last_call = Call("recv_packet", n, "CHANNEL_DATA")
        /\ result = UnknownChannel

(***************************************************************************)
(* Transport layer: algorithm negotiation (AlgorithmNegotiation).  The     *)
(* name of an algorithm is a string, modelled as a sequence of characters; *)
(* a name-list is the names joined by commas, as it travels in KEXINIT.    *)
(***************************************************************************)
MaxAlgs == 3

Comma == ","

\* AlgorithmName::name of the algorithms of the model: non-empty, no comma; one
\* name is a prefix of another
AlgorithmNames == {<<"a">>, <<"a", "b">>, <<"b">>}

\* AlgorithmNegotiation.supported, in order of preference
AlgLists == UNION {[1..n -> AlgorithmNames] : n \in 0..MaxAlgs}

\* the least element of a non-empty set of integers
Least(S) == CHOOSE x \in S : \A y \in S : x <= y

\* [&str]::join(",")
RECURSIVE Join(_)
Join(names) ==
    IF names = <<>> THEN <<>>
    ELSE IF Len(names) = 1 THEN names[1]
    ELSE names[1] \o <<Comma>> \o Join(Tail(names))

\* AlgorithmNegotiation::to_name_list
to_name_list(supported) == Join(supported)

\* str::split(','): the pieces between the commas; one empty piece for ""
RECURSIVE Split(_)
Split(str) ==
    LET commas == {i \in 1..Len(str) : str[i] = Comma}
    IN  IF commas = {} THEN <<str>>
        ELSE LET c == Least(commas)
             IN  <<SubSeq(str, 1, c - 1)>> \o Split(SubSeq(str, c + 1, Len(str)))

NoMatchingAlgorithm == "peer does not support any matching algorithm"

\* the loop of find over client_algs: the first name that server_algs has and
\* that names one of self.supported, which is returned
FirstMatch(supported, client_algs, server_algs) ==
    LET matching == {i \in 1..Len(client_algs) :
                        /\ \E j \in 1..Len(server_algs) : server_algs[j] = client_algs[i]
                        /\ \E p \in 1..Len(supported) : supported[p] = client_algs[i]}
    IN  IF matching = {} THEN NoMatchingAlgorithm
        ELSE LET alg_name == client_algs[Least(matching)]
                 alg == Least({p \in 1..Len(supported) : supported[p] = alg_name})
             IN  supported[alg]

\* a find that walks the server's list instead of the client's
find_in_server_order(supported, this_is_client, peer_supports) ==
    LET my_algs == supported
        peer_algs == Split(peer_supports)
    IN  IF this_is_client THEN FirstMatch(supported, peer_algs, my_algs)
                          ELSE FirstMatch(supported, my_algs, peer_algs)

\* AlgorithmNegotiation::find
find(supported, this_is_client, peer_supports) ==
    LET my_algs == supported
        peer_algs == Split(peer_supports)
    IN  IF this_is_client THEN FirstMatch(supported, my_algs, peer_algs)
                          ELSE FirstMatch(supported, peer_algs, my_algs)

\* the variables of the multiplexer, which the transport layer does not touch
channel_layer == <<packets_to_send, channel_updates, channels, next_channel_id, is_server, result, panicked, out_log, upd_log, hist, steps, budget, last_call, close_called>>

\* a multiplexer that is constructed and left alone
ChannelsIdle == ChannelsNew /\ is_server = TRUE /\ budget = 0

\* the value one application of a function returned is recorded under a key
Returned(key, value) == returned' = [k \in DOMAIN returned \cup {key} |-> IF k = key THEN value ELSE returned[k]]

\* the client runs find on its list with the server's name-list
FindAsClient ==
    /\ "client" \notin DOMAIN returned
    /\ Returned("client", find(args.client, TRUE, to_name_list(args.server)))
    /\ UNCHANGED <<channel_layer, args, transport_vars, driver_vars>>

\* the server runs find on its list with the client's name-list
FindAsServer ==
    /\ "server" \notin DOMAIN returned
    /\ Returned("server", find(args.server, FALSE, to_name_list(args.client)))
    /\ UNCHANGED <<channel_layer, args, transport_vars, driver_vars>>

(***************************************************************************)
(* SpecNegotiate: a client list and a server list of at most MaxAlgs       *)
(* names; each side runs find once.                                        *)
(***************************************************************************)
InitNegotiate ==
    /\ ChannelsIdle
    /\ NoDriver
    /\ args \in [client : AlgLists, server : AlgLists]
    /\ returned = <<>>
    /\ NoTransport

NextNegotiate ==
    \/ FindAsClient
    \/ FindAsServer

SpecNegotiate == InitNegotiate /\ [][NextNegotiate]_vars

\* the entries of a list
Entries(list) == {list[i] : i \in 1..Len(list)}

\* the first entry of the client's list that the server's list has
FirstCommon(client_list, server_list) ==
    LET common == {i \in 1..Len(client_list) : client_list[i] \in Entries(server_list)}
    IN  IF common = {} THEN NoMatchingAlgorithm ELSE client_list[Least(common)]

\* C11: on either side find returns the first entry of the client's list that
\* occurs anywhere in the server's list, and the error exactly when the lists
\* have no common entry
C11_Negotiation ==
    \A side \in DOMAIN returned :
        /\ returned[side] = FirstCommon(args.client, args.server)
        /\ returned[side] = NoMatchingAlgorithm
               <=> Entries(args.client) \cap Entries(args.server) = {}

\* both sides ran find on lists whose common entries come in opposite orders
C11_Witness ==
    /\ DOMAIN returned = {"client", "server"}
    /\ Len(args.client) >= 2 /\ Len(args.server) >= 2
    /\ args.client[1] = args.server[2]
    /\ args.client[2] = args.server[1]
    /\ args.client[1] # args.client[2]
    /\ returned["client"] = args.client[1]
    /\ returned["server"] = args.client[1]

(***************************************************************************)
(* Transport layer: packet framing (Packet::to_bytes, Packet::from_raw).   *)
(* A byte is a number in 0..255, a payload and a frame are sequences of    *)
(* bytes.                                                                  *)
(***************************************************************************)
MaxPayloadLen == 8

\* the bytes of the payloads of the model: the padding byte and a byte in the
\* range of the padding lengths
PayloadBytes == {0, 9}

Payloads == UNION {[1..n -> PayloadBytes] : n \in 0..MaxPayloadLen}

\* `as u8`
AsU8(n) == n % 256

\* usize::next_multiple_of
next_multiple_of(n, m) == IF n % m = 0 THEN n ELSE n + (m - (n % m))

\* u32::to_be_bytes / u32::from_be_bytes, for the lengths of the model
to_be_bytes(n) == <<(n \div 16777216) % 256, (n \div 65536) % 256, (n \div 256) % 256, n % 256>>

from_be_bytes(b) == ((b[1] * 256 + b[2]) * 256 + b[3]) * 256 + b[4]

\* std::iter::repeat(0).take(n)
Zeros(n) == [i \in 1..n |-> 0]

Panic == "panic"

EmptyPacket == "empty packet"
PaddingLongerThanPacket == "packet padding longer than packet"
NotMultipleOf8 == "full packet length must be multiple of 8"

\* the frame of to_bytes for a padding length
Framed(payload, padding_len) ==
    LET packet_len == Len(payload) + padding_len + 1
        new == to_be_bytes(packet_len) \o <<padding_len>> \o payload \o Zeros(padding_len)
    IN  IF (4 + 1 + Len(payload) + padding_len) % 8 = 0 /\ Len(new) % 8 = 0
        THEN new ELSE Panic

\* a to_bytes that pads to the next multiple of 8 and no further
to_bytes_min_padding(payload) ==
    LET min_full_length == Len(payload) + 4 + 1
    IN  Framed(payload, AsU8(next_multiple_of(min_full_length, 8) - min_full_length))

\* Packet::to_bytes
to_bytes(payload) ==
    LET min_full_length == Len(payload) + 4 + 1
        min_padding_len == AsU8(next_multiple_of(min_full_length, 8) - min_full_length)
        padding_len == min_padding_len + 8
    IN  Framed(payload, padding_len)

\* Packet::from_raw: the error it returns, "Ok" when it returns a packet
from_raw_check(bytes) ==
    IF Len(bytes) = 0 THEN EmptyPacket
    ELSE IF Len(bytes) - 1 < bytes[1] THEN PaddingLongerThanPacket
    ELSE IF (Len(bytes) + 4) % 8 # 0 THEN NotMultipleOf8
    ELSE "Ok"

\* Packet::from_raw
from_raw(bytes) ==
    IF from_raw_check(bytes) # "Ok" THEN from_raw_check(bytes)
    ELSE LET padding_length == bytes[1]
             payload_len == Len(bytes) - 1 - padding_length
         IN  SubSeq(Tail(bytes), 1, payload_len)

\* RawPacket::rest
rest(raw) == SubSeq(raw, 5, Len(raw))

\* the payload is framed
ToBytes ==
    /\ "frame" \notin DOMAIN returned
    /\ Returned("frame", to_bytes(args.payload))
    /\ UNCHANGED <<channel_layer, args, transport_vars, driver_vars>>

\* the frame is read back, as the plaintext keys do
FromRaw ==
    /\ "frame" \in DOMAIN returned
    /\ returned["frame"] # Panic
    /\ "packet" \notin DOMAIN returned
    /\ Returned("packet", from_raw(rest(returned["frame"])))
    /\ UNCHANGED <<channel_layer, args, transport_vars, driver_vars>>

(***************************************************************************)
(* SpecPacket: a payload of at most MaxPayloadLen bytes is framed and the  *)
(* frame is read back.                                                     *)
(***************************************************************************)
InitPacket ==
    /\ ChannelsIdle
    /\ NoDriver
    /\ args \in [payload : Payloads]
    /\ returned = <<>>
    /\ NoTransport

NextPacket ==
    \/ ToBytes
    \/ FromRaw

SpecPacket == InitPacket /\ [][NextPacket]_vars

\* C12: the frame of a payload is a multiple of 8 bytes long, length bytes
\* included; its packet_length field is 1 + |p| + padding_length and counts
\* the bytes after it; its padding_length is in 4..255; and from_raw of the
\* frame without the length bytes is the payload
C12_Framing ==
    /\ "frame" \in DOMAIN returned =>
          LET frame == returned["frame"]
          IN  /\ frame # Panic
              /\ Len(frame) % 8 = 0
              /\ from_be_bytes(SubSeq(frame, 1, 4)) = 1 + Len(args.payload) + frame[5]
              /\ from_be_bytes(SubSeq(frame, 1, 4)) = Len(frame) - 4
              /\ frame[5] >= 4 /\ frame[5] <= 255
    /\ "packet" \in DOMAIN returned => returned["packet"] = args.payload

\* a payload that ends in padding bytes, of a length that needs the least
\* padding, made the round trip
C12_Witness ==
    /\ "packet" \in DOMAIN returned
    /\ Len(args.payload) = 3
    /\ args.payload[3] = 0
    /\ returned["frame"][5] = 8
    /\ returned["packet"] = args.payload

(***************************************************************************)
(* Transport layer: keys (Plaintext, Session) and the framer               *)
(* (PacketTransport, PacketParser).                                        *)
(*                                                                         *)
(* A byte on the wire is [key, seq, b]: the byte b as the sender's keys    *)
(* left it.  key is the cipher state it was encrypted under, <<>> for a    *)
(* byte sent in the clear, and seq the sequence number of its packet.  The *)
(* exchange hash h and the shared secret k are small numbers, SHA-256 is   *)
(* the tuple of what it hashes.                                            *)
(***************************************************************************)
MaxFrames == 3
MaxInstalls == 2

Hashes == {1, 2}
SharedSecrets == {1, 2}

\* a byte nobody encrypted
Clear(b) == [key |-> <<>>, seq |-> 0, b |-> b]

ClearBytes(bytes) == [i \in 1..Len(bytes) |-> Clear(bytes[i])]

\* derive_key: the hash of K, H, the letter and the session id
derive_key(k, h, letter, session_id) == <<k, h, letter, session_id>>

\* Plaintext: the keys before the first key exchange
Plaintext == [kind |-> "Plaintext", session_id |-> 0, from_peer |-> <<>>, to_peer |-> <<>>]

\* Session::from_keys, for is_server = true: from_peer is the client-to-server
\* tunnel (key "C", IV "A"), to_peer the server-to-client one (key "D", IV "B")
from_keys(session_id, h, k) ==
    [kind |-> "Session", session_id |-> session_id,
     from_peer |-> derive_key(k, h, "C", session_id) \o derive_key(k, h, "A", session_id),
     to_peer |-> derive_key(k, h, "D", session_id) \o derive_key(k, h, "B", session_id)]

\* Session::new: the first exchange hash is the session id
Session_new(h, k) == from_keys(h, h, k)

\* a rekey that takes the new exchange hash as the session id
rekey_with_new_id(keys, h, k) ==
    IF keys.kind = "Plaintext" THEN "Err" ELSE from_keys(h, h, k)

\* Keys::rekey: Plaintext returns Err(()), Session derives again with its own
\* session id
rekey(keys, h, k) ==
    IF keys.kind = "Plaintext" THEN "Err" ELSE from_keys(keys.session_id, h, k)

\* PacketTransport::set_key: the keys after it
set_key(keys, h, k) ==
    IF keys.kind = "Plaintext" THEN Session_new(h, k) ELSE rekey(keys, h, k)

\* what a cipher makes of a byte that was not encrypted for it
Garbage == 127

\* a wire byte as the keys read it with the sequence number they are given
Decrypted(keys, byte, seq) ==
    IF keys.kind = "Plaintext"
    THEN (IF byte.key = <<>> THEN byte.b ELSE Garbage)
    ELSE (IF byte.key = keys.from_peer /\ byte.seq = seq THEN byte.b ELSE Garbage)

\* Keys::decrypt_len
decrypt_len(keys, bytes, seq) == [i \in 1..Len(bytes) |-> Decrypted(keys, bytes[i], seq)]

MacFailure == "mac failure"

\* Keys::decrypt_packet: the error it returns, "Ok" when it returns a packet.
\* Plaintext reads the packet as it is, a Session authenticates it first
decrypt_packet_check(keys, raw, seq) ==
    IF keys.kind = "Session" /\ \E i \in 1..Len(raw) : raw[i].key # keys.from_peer \/ raw[i].seq # seq
    THEN MacFailure
    ELSE from_raw_check(rest(decrypt_len(keys, raw, seq)))

\* Keys::decrypt_packet
decrypt_packet(keys, raw, seq) == from_raw(rest(decrypt_len(keys, raw, seq)))

\* a frame as the peer's keys send it with sequence number seq
Encrypted(keys, frame, seq) ==
    IF keys.kind = "Plaintext" THEN ClearBytes(frame)
    ELSE [i \in 1..Len(frame) |-> [key |-> keys.from_peer, seq |-> seq, b |-> frame[i]]]

\* PacketParser::new
PacketParser_new == [packet_length |-> None, raw_data |-> <<>>]

\* PacketTransport::new
PacketTransport_new ==
    [decrytor |-> Plaintext, next_packet |-> PacketParser_new, packets |-> <<>>, next_recv_seq_nr |-> 0]

\* variant: every byte of the input is taken into the packet
body_bytes_all(bytes_len, packet_length, raw_data_len) == bytes_len

\* "std::cmp::min(bytes.len(), packet_length - (self.raw_data.len() - 4))": how
\* many bytes of the input belong to the body
body_bytes_taken(bytes_len, packet_length, raw_data_len) ==
    Min(bytes_len, packet_length - (raw_data_len - 4))

\* PacketParser::recv_bytes_inner: the parser after it, the bytes consumed,
\* whether the packet is complete and its raw bytes, whether an assertion failed
recv_bytes_inner(parser, bytes, decrytor, next_seq_nr) ==
    IF parser.packet_length # None /\ Len(parser.raw_data) < 4
    THEN [parser |-> parser, consumed |-> 0, complete |-> FALSE, raw |-> <<>>, panic |-> TRUE]
    ELSE LET have_len == parser.packet_length # None
             len_bytes == IF have_len THEN 0 ELSE Min(Len(bytes), 4 - Len(parser.raw_data))
             raw_len == parser.raw_data \o SubSeq(bytes, 1, len_bytes)
         IN  IF Len(raw_len) < 4
             THEN [parser |-> [parser EXCEPT !.raw_data = raw_len], consumed |-> 0, complete |-> FALSE, raw |-> <<>>, panic |-> FALSE]
             ELSE LET packet_length == IF have_len THEN parser.packet_length
                                       ELSE from_be_bytes(decrypt_len(decrytor, SubSeq(raw_len, 1, 4), next_seq_nr))
                      bytes1 == SubSeq(bytes, len_bytes + 1, Len(bytes))
                      remaining_len == body_bytes_taken(Len(bytes1), packet_length, Len(raw_len))
                      raw_data == raw_len \o SubSeq(bytes1, 1, remaining_len)
                      consumed == len_bytes + remaining_len
                  IN  IF Len(raw_data) - 4 = packet_length
                      THEN [parser |-> [packet_length |-> packet_length, raw_data |-> <<>>], consumed |-> consumed, complete |-> TRUE, raw |-> raw_data, panic |-> FALSE]
                      ELSE [parser |-> [packet_length |-> packet_length, raw_data |-> raw_data], consumed |-> consumed, complete |-> FALSE, raw |-> <<>>, panic |-> FALSE]

\* the result of a step: the transport after it, Some(consumed) or None, the
\* error it returned ("Ok" for none), and whether it aborted
StepResult(pt, some, consumed, err, panic) == [pt |-> pt, some |-> some, consumed |-> consumed, err |-> err, panic |-> panic]

\* a count that leaves out the packets of type SSH_MSG_IGNORE
CompletedUnlessIgnore(pt, packet) ==
    [pt EXCEPT !.packets = Append(@, packet), !.next_recv_seq_nr = IF packet[1] = 2 THEN @ ELSE @ + 1, !.next_packet = PacketParser_new]

\* the largest value of next_recv_seq_nr, a u64: the word is scaled as the
\* 32-bit word is and stays wider than it
U64Max == 2^(WordBits + 5) - 1

\* the packet is pushed and counted: "self.next_recv_seq_nr.wrapping_add(1)"
Completed(pt, packet) ==
    [pt EXCEPT !.packets = Append(@, packet), !.next_recv_seq_nr = (@ + 1) % (U64Max + 1), !.next_packet = PacketParser_new]

\* PacketTransport::recv_bytes_step (with PacketParser::recv_bytes)
recv_bytes_step(pt, bytes) ==
    LET r == recv_bytes_inner(pt.next_packet, bytes, pt.decrytor, pt.next_recv_seq_nr)
        parsed == [pt EXCEPT !.next_packet = r.parser]
        check == decrypt_packet_check(pt.decrytor, r.raw, pt.next_recv_seq_nr)
    IN  IF r.panic THEN StepResult(pt, FALSE, 0, "Ok", TRUE)
        ELSE IF ~r.complete THEN StepResult(parsed, FALSE, 0, "Ok", FALSE)
        ELSE IF check # "Ok" THEN StepResult(parsed, FALSE, 0, check, FALSE)
        ELSE StepResult(Completed(parsed, decrypt_packet(pt.decrytor, r.raw, pt.next_recv_seq_nr)), TRUE, r.consumed, "Ok", FALSE)

\* PacketTransport::recv_bytes: steps until the bytes are used up or a packet
\* is left incomplete
RECURSIVE PacketTransport_recv_bytes(_, _)
PacketTransport_recv_bytes(pt, bytes) ==
    LET s == recv_bytes_step(pt, bytes)
        left == SubSeq(bytes, s.consumed + 1, Len(bytes))
    IN  IF s.panic \/ s.err # "Ok" \/ ~s.some \/ left = <<>> THEN s
        ELSE PacketTransport_recv_bytes(s.pt, left)

(***************************************************************************)
(* SpecFramer: a PacketTransport fed by a peer.  The peer writes up to     *)
(* MaxFrames frames, one of them possibly corrupt; the driver hands the    *)
(* bytes to recv_bytes in pieces and takes the packets out; keys are       *)
(* installed once, on both ends at once, when no byte is in flight.        *)
(***************************************************************************)
\* the payloads the peer sends: NEWKEYS, IGNORE with data
FramerPayloads == {<<21>>, <<2, 0, 0, 0, 1, 9>>}

\* the lengths of the pieces the driver reads: within the length bytes, up to
\* them, into the body, a frame, a frame and a part
ChunkLens == {1, 4, 5, 16, 19}

\* a frame whose padding length exceeds the frame
Corrupt(frame) == [frame EXCEPT ![5] = 255]

\* the keys of a peer that followed the installations: the session id is the
\* first exchange hash
PeerKeys(installs) ==
    IF installs = <<>> THEN Plaintext
    ELSE from_keys(installs[1][1], installs[Len(installs)][1], installs[Len(installs)][2])

InitFramer ==
    /\ ChannelsIdle
    /\ NoDriver
    /\ args = <<>>
    /\ returned = <<>>
    /\ server_state = "None"
    /\ plaintext_packets = <<>>
    /\ packet_transport = PacketTransport_new
    /\ wire = <<>>
    /\ client = [keys |-> Plaintext, seq |-> 0]
    /\ transport_log = [frames |-> <<>>, delivered |-> 0, installs |-> <<>>]

\* the connection has not failed
Running == ~panicked /\ result \notin {MacFailure, EmptyPacket, PaddingLongerThanPacket, NotMultipleOf8}

\* the peer writes a frame; its sequence number is the uint32 of RFC 4253 6.4
PeerWrites(payload, ok) ==
    /\ Running
    /\ Len(transport_log.frames) < MaxFrames
    /\ LET frame == IF ok THEN to_bytes(payload) ELSE Corrupt(to_bytes(payload))
       IN  /\ wire' = wire \o Encrypted(client.keys, frame, client.seq)
           /\ client' = [client EXCEPT !.seq = (@ + 1) % (U32Max + 1)]
           /\ transport_log' = [transport_log EXCEPT !.frames = Append(@, [len |-> Len(frame), ok |-> ok, payload |-> payload])]
    /\ UNCHANGED <<channel_layer, function_vars, driver_vars, server_state, packet_transport, plaintext_packets>>

\* the driver calls PacketTransport::recv_bytes with the next n bytes
FramerRecvBytes(n) ==
    /\ Running
    /\ n \in 1..Len(wire)
    /\ LET r == PacketTransport_recv_bytes(packet_transport, SubSeq(wire, 1, n))
       IN  /\ packet_transport' = r.pt
           /\ result' = r.err
           /\ panicked' = r.panic
    /\ wire' = SubSeq(wire, n + 1, Len(wire))
    /\ transport_log' = [transport_log EXCEPT !.delivered = @ + n]
    /\ UNCHANGED <<packets_to_send, channel_updates, channels, next_channel_id, is_server, out_log, upd_log, hist, steps, budget, last_call, close_called>>
    /\ UNCHANGED <<function_vars, driver_vars, server_state, plaintext_packets, client>>

\* PacketTransport::next_packet
FramerNextPacket ==
    /\ Running
    /\ packet_transport.packets # <<>>
    /\ packet_transport' = [packet_transport EXCEPT !.packets = Tail(@)]
    /\ UNCHANGED <<channel_layer, function_vars, driver_vars, server_state, plaintext_packets, wire, client, transport_log>>

\* PacketTransport::set_key, while the peer installs the keys of the same
\* exchange
SetKey(h, k) ==
    /\ Running
    /\ wire = <<>>
    /\ packet_transport.next_packet = PacketParser_new
    /\ Len(transport_log.installs) < MaxInstalls
    /\ packet_transport' = [packet_transport EXCEPT !.decrytor = set_key(@, h, k)]
    /\ transport_log' = [transport_log EXCEPT !.installs = Append(@, <<h, k>>)]
    /\ client' = [client EXCEPT !.keys = PeerKeys(transport_log'.installs)]
    /\ UNCHANGED <<channel_layer, function_vars, driver_vars, server_state, plaintext_packets, wire>>

NextFramer ==
    \/ \E payload \in FramerPayloads : PeerWrites(payload, TRUE)
    \/ PeerWrites(<<21>>, FALSE)
    \/ \E n \in ChunkLens \cup {Len(wire)} : FramerRecvBytes(n)
    \/ FramerNextPacket
    \/ transport_log.installs = <<>> /\ \E h \in Hashes : SetKey(h, 1)

SpecFramer == InitFramer /\ [][NextFramer]_vars

\* the frames that have been handed to recv_bytes whole, up to the first one
\* that recv_bytes fails on
RECURSIVE FramesWithin(_, _)
FramesWithin(frames, delivered) ==
    IF frames = <<>> \/ frames[1].len > delivered \/ ~frames[1].ok THEN <<>>
    ELSE <<frames[1]>> \o FramesWithin(Tail(frames), delivered - frames[1].len)

\* the packets framed and decrypted so far
FramedAndDecrypted == FramesWithin(transport_log.frames, transport_log.delivered)

\* C13: the receive sequence number is 0 at first and is the number of packets
\* completely framed and decrypted so far, whatever their types; bytes of a
\* packet that is not yet complete do not change it
C13_SequenceNumber == packet_transport.next_recv_seq_nr = Len(FramedAndDecrypted)

\* two packets of different types have been counted, one of them under
\* session keys, and part of a third has been received
C13_Witness ==
    /\ packet_transport.next_recv_seq_nr = 2
    /\ packet_transport.next_packet.raw_data # <<>>
    /\ transport_log.frames[1].payload[1] = 21
    /\ transport_log.frames[2].payload[1] = 2
    /\ packet_transport.decrytor.kind = "Session"

(***************************************************************************)
(* SpecKeys: up to MaxInstalls key installations of any exchange hashes    *)
(* and shared secrets on one PacketTransport, with whole frames of the     *)
(* peer received in between.                                               *)
(***************************************************************************)
NextKeys ==
    \/ \E h \in Hashes, k \in SharedSecrets : SetKey(h, k)
    \/ PeerWrites(<<21>>, TRUE)
    \/ FramerRecvBytes(Len(wire))
    \/ FramerNextPacket

SpecKeys == InitFramer /\ [][NextKeys]_vars

\* the first and the latest installation
FirstInstall == transport_log.installs[1]
LastInstall == transport_log.installs[Len(transport_log.installs)]

\* C14: after every installation the keys are a Session whose session id is the
\* exchange hash of the first installation, and both tunnels are derived from
\* the latest h and k with that session id
C14_SessionId ==
    transport_log.installs # <<>> =>
        LET h1 == FirstInstall[1]
            h == LastInstall[1]
            k == LastInstall[2]
            keys == packet_transport.decrytor
        IN  /\ keys.kind = "Session"
            /\ keys.session_id = h1
            /\ keys.from_peer = <<k, h, "C", h1, k, h, "A", h1>>
            /\ keys.to_peer = <<k, h, "D", h1, k, h, "B", h1>>

\* the keys were installed twice with different hashes and secrets, and a packet
\* the peer sent under the second keys has been decrypted
C14_Witness ==
    /\ Len(transport_log.installs) = 2
    /\ FirstInstall[1] # LastInstall[1]
    /\ FirstInstall[2] # LastInstall[2]
    /\ packet_transport.decrytor.session_id = FirstInstall[1]
    /\ packet_transport.next_recv_seq_nr = 1
    /\ client.keys.kind = "Session"
    /\ result = "Ok"

(***************************************************************************)
(* Transport layer: the server's state machine (ServerConnection).         *)
(*                                                                         *)
(* A payload is its type byte followed by its fields, which are modelled   *)
(* by one number that selects among the contents the model tells apart; a  *)
(* payload of the type byte alone is cut short and fails to parse.  The    *)
(* identification line is a sequence of character codes.                   *)
(***************************************************************************)
MaxClientPackets == 5

SSH_MSG_DISCONNECT == 1
SSH_MSG_IGNORE == 2
SSH_MSG_DEBUG == 4
SSH_MSG_SERVICE_REQUEST == 5
SSH_MSG_SERVICE_ACCEPT == 6
SSH_MSG_EXT_INFO == 7
SSH_MSG_KEXINIT == 20
SSH_MSG_NEWKEYS == 21
SSH_MSG_KEX_ECDH_INIT == 30
SSH_MSG_KEX_ECDH_REPLY == 31
SSH_MSG_CHANNEL_OPEN == 90

CR == 13
LF == 10

\* the return values of ServerConnection::recv_bytes other than Ok(())
Disconnect == "Disconnect"
UnexpectedPacket == "unexpected packet"
NotNewKeys == "did not send SSH_MSG_NEWKEYS"
OnlyUserauth == "only supports ssh-userauth"
ExpectedServiceRequest == "unexpected packet, expected SSH_MSG_SERVICE_REQUEST"
GuessedPacket == "the client wants to send a guessed packet"
ExpectedKexInit == "expected SSH_MSG_KEXINIT packet"
ExpectedEcdhInit == "expected SSH_MSG_KEX_ECDH_INIT packet"

TransportErrors ==
    {Disconnect, UnexpectedPacket, NotNewKeys, OnlyUserauth, ExpectedServiceRequest,
     GuessedPacket, ExpectedKexInit, ExpectedEcdhInit, ParseError, NoMatchingAlgorithm,
     MacFailure, EmptyPacket, PaddingLongerThanPacket, NotMultipleOf8}

\* ServerState
ProtoExchange(ident_parser) == [name |-> "ProtoExchange", ident_parser |-> ident_parser]
KeyExchangeInit(client_identification) == [name |-> "KeyExchangeInit", client_identification |-> client_identification]
DhKeyInit(client_identification, kex_algorithm) == [name |-> "DhKeyInit", client_identification |-> client_identification, kex_algorithm |-> kex_algorithm]
WaitingForKeyExchange(client_identification, kex_algorithm) == [name |-> "WaitingForKeyExchange", client_identification |-> client_identification, kex_algorithm |-> kex_algorithm]
NewKeys(hash, shared_secret) == [name |-> "NewKeys", hash |-> hash, shared_secret |-> shared_secret]
ServiceRequest(session_id, may_send_extensions) == [name |-> "ServiceRequest", session_id |-> session_id, may_send_extensions |-> may_send_extensions]
Open(session_id) == [name |-> "Open", session_id |-> session_id]

\* ServerConfig.server_identification
server_identification == <<83, CR, LF>>

\* SupportedAlgorithms::secure: key_exchange
SupportedKex == <<<<"a">>, <<"b">>>>

\* the name "ext-info-c"
ExtInfoC == <<"e">>

\* the client's KEXINIT contents: the kex name-list and first_kex_packet_follows
KexInitContents ==
    [f \in {1, 2, 3, 4} |->
        CASE f = 1 -> [kex_algorithms |-> to_name_list(<<<<"b">>, <<"a">>>>), first_kex_packet_follows |-> FALSE]
          [] f = 2 -> [kex_algorithms |-> to_name_list(<<<<"a", "b">>>>), first_kex_packet_follows |-> FALSE]
          [] f = 3 -> [kex_algorithms |-> to_name_list(<<<<"a">>>>), first_kex_packet_follows |-> TRUE]
          [] f = 4 -> [kex_algorithms |-> to_name_list(<<<<"a">>, ExtInfoC>>), first_kex_packet_follows |-> FALSE]]

\* the service names: 1 is "ssh-userauth"
SshUserauth == 1

\* Packet::packet_type
packet_type(payload) == payload[1]

\* Reader: the fields of a payload parse
WellFormed(payload) == Len(payload) >= 2

\* Msg
Msg(kind, payload, key, seq) == [kind |-> kind, payload |-> payload, key |-> key, seq |-> seq]

\* Keys::encrypt_packet_to_msg
encrypt_packet_to_msg(keys, packet, seq) ==
    IF keys.kind = "Plaintext" THEN Msg("PlaintextPacket", packet, <<>>, seq)
    ELSE Msg("EncryptedPacket", packet, keys.to_peer, seq)

\* PacketTransport::new of the server's transport
ServerTransport_new ==
    [decrytor |-> Plaintext, next_packet |-> PacketParser_new, packets |-> <<>>, next_recv_seq_nr |-> 0,
     send_packets |-> <<>>, send_next_seq_nr |-> 0]

\* PacketTransport::queue_send_protocol_info
queue_send_protocol_info(pt, identification) ==
    [pt EXCEPT !.send_packets = Append(@, Msg("ServerProtocolInfo", identification, <<>>, 0))]

\* PacketTransport::queue_packet: the packet is encrypted with the keys and the
\* send sequence number of the moment it is queued
queue_packet(pt, packet) ==
    [pt EXCEPT !.send_packets = Append(@, encrypt_packet_to_msg(pt.decrytor, packet, pt.send_next_seq_nr)),
               !.send_next_seq_nr = @ + 1]

\* ProtocolIdentParser::get_peer_ident: the line is there once CR LF is
has_crlf(buf) == \E i \in 1..(Len(buf) - 1) : buf[i] = CR /\ buf[i + 1] = LF

\* a connection: the fields of ServerConnection and the packets handled by the
\* call in progress
Conn(st, pt, plain, handled) == [state |-> st, pt |-> pt, plain |-> plain, handled |-> handled]

\* the outcome of handling one packet: the connection and what is returned
Outcome(c, err) == [c |-> c, err |-> err]

\* recv_bytes_inner, state KeyExchangeInit
OnKeyExchangeInit(c, payload) ==
    IF packet_type(payload) # SSH_MSG_KEXINIT THEN Outcome(c, ExpectedKexInit)
    ELSE IF ~WellFormed(payload) THEN Outcome(c, ParseError)
    ELSE LET kex == KexInitContents[payload[2]]
             kex_algorithm == find(SupportedKex, FALSE, kex.kex_algorithms)
         IN  IF kex_algorithm = NoMatchingAlgorithm THEN Outcome(c, NoMatchingAlgorithm)
             ELSE IF kex.first_kex_packet_follows THEN Outcome(c, GuessedPacket)
             ELSE Outcome([c EXCEPT !.pt = queue_packet(@, <<SSH_MSG_KEXINIT, 1>>),
                                    !.state = DhKeyInit(c.state.client_identification, kex_algorithm)], "Ok")

\* recv_bytes_inner, state DhKeyInit
OnDhKeyInit(c, payload) ==
    IF packet_type(payload) # SSH_MSG_KEX_ECDH_INIT THEN Outcome(c, ExpectedEcdhInit)
    ELSE IF ~WellFormed(payload) THEN Outcome(c, ParseError)
    ELSE Outcome([c EXCEPT !.state = WaitingForKeyExchange(c.state.client_identification, c.state.kex_algorithm)], "Ok")

\* recv_bytes_inner, state NewKeys
OnNewKeys(c, payload) ==
    IF payload # <<SSH_MSG_NEWKEYS>> THEN Outcome(c, NotNewKeys)
    ELSE LET queued == queue_packet(c.pt, <<SSH_MSG_NEWKEYS>>)
             keyed == [queued EXCEPT !.decrytor = set_key(@, c.state.hash, c.state.shared_secret)]
         IN  Outcome([c EXCEPT !.pt = keyed, !.state = ServiceRequest(c.state.hash, TRUE)], "Ok")

\* a ServiceRequest state that accepts any service name
OnServiceRequestAnyService(c, payload) ==
    IF packet_type(payload) = SSH_MSG_SERVICE_REQUEST /\ WellFormed(payload)
    THEN Outcome([c EXCEPT !.pt = queue_packet(@, <<SSH_MSG_SERVICE_ACCEPT, payload[2]>>),
                           !.state = Open(c.state.session_id)], "Ok")
    ELSE Outcome(c, ExpectedServiceRequest)

\* recv_bytes_inner, state ServiceRequest
OnServiceRequest(c, payload) ==
    CASE packet_type(payload) = SSH_MSG_SERVICE_REQUEST ->
            IF ~WellFormed(payload) THEN Outcome(c, ParseError)
            ELSE IF payload[2] # SshUserauth THEN Outcome(c, OnlyUserauth)
            ELSE Outcome([c EXCEPT !.pt = queue_packet(@, <<SSH_MSG_SERVICE_ACCEPT, payload[2]>>),
                                   !.state = Open(c.state.session_id)], "Ok")
      [] packet_type(payload) = SSH_MSG_EXT_INFO /\ c.state.may_send_extensions ->
            IF ~WellFormed(payload) THEN Outcome(c, ParseError)
            ELSE Outcome([c EXCEPT !.state = ServiceRequest(c.state.session_id, FALSE)], "Ok")
      [] OTHER -> Outcome(c, ExpectedServiceRequest)

\* an Open state that starts a key exchange when the client sends KEXINIT
OnOpenRekeying(c, payload) ==
    IF packet_type(payload) = SSH_MSG_KEXINIT
    THEN OnKeyExchangeInit([c EXCEPT !.state = KeyExchangeInit(<<>>)], payload)
    ELSE Outcome([c EXCEPT !.plain = Append(@, payload)], "Ok")

\* recv_bytes_inner, state Open
OnOpen(c, payload) == Outcome([c EXCEPT !.plain = Append(@, payload)], "Ok")

\* a handler that hands SSH_MSG_IGNORE and SSH_MSG_DEBUG to the state
AnyStateNothing(c, payload) == Outcome(c, "Unhandled")

\* recv_bytes_inner: the packets handled whatever the state
AnyState(c, payload) ==
    CASE packet_type(payload) = SSH_MSG_DISCONNECT ->
            IF WellFormed(payload) THEN Outcome(c, Disconnect) ELSE Outcome(c, ParseError)
      [] packet_type(payload) \in {SSH_MSG_IGNORE, SSH_MSG_DEBUG} ->
            IF WellFormed(payload) THEN Outcome(c, "Ok") ELSE Outcome(c, ParseError)
      [] OTHER -> Outcome(c, "Unhandled")

\* recv_bytes_inner: the body of the loop over the received packets
HandlePacket(c, payload) ==
    LET any == AnyState(c, payload)
    IN  IF any.err # "Unhandled" THEN any
        ELSE CASE c.state.name = "KeyExchangeInit" -> OnKeyExchangeInit(c, payload)
               [] c.state.name = "DhKeyInit" -> OnDhKeyInit(c, payload)
               [] c.state.name = "WaitingForKeyExchange" -> Outcome(c, UnexpectedPacket)
               [] c.state.name = "NewKeys" -> OnNewKeys(c, payload)
               [] c.state.name = "ServiceRequest" -> OnServiceRequest(c, payload)
               [] c.state.name = "Open" -> OnOpen(c, payload)

\* what the history keeps of one handled packet; nth counts the packets
\* handled by the same call of recv_bytes
Handled(before, payload, out) ==
    [payload |-> payload, nth |-> Len(before.handled) + 1, before |-> before.state, after |-> out.c.state, err |-> out.err,
     queued |-> Len(out.c.pt.send_packets) - Len(before.pt.send_packets),
     forwarded |-> Len(out.c.plain) - Len(before.plain),
     keys_before |-> before.pt.decrytor, keys_after |-> out.c.pt.decrytor]

\* the outcome with the handled packet added to the history
Logged(before, payload, out) == [out EXCEPT !.c.handled = Append(@, Handled(before, payload, out))]

\* recv_bytes_inner: while let Some(packet) = recv_next_packet()
RECURSIVE HandlePackets(_)

\* the loop goes on unless the packet made recv_bytes_inner return
HandleRest(logged) == IF logged.err # "Ok" THEN logged ELSE HandlePackets(logged.c)

\* PacketTransport::recv_next_packet, and the body of the loop
HandleNext(popped, payload) == HandleRest(Logged(popped, payload, HandlePacket(popped, payload)))

HandlePackets(c) ==
    IF c.pt.packets = <<>> THEN Outcome(c, "Ok")
    ELSE HandleNext([c EXCEPT !.pt.packets = Tail(@)], Head(c.pt.packets))

\* the last element of a sequence, <<>> for none
Last(seq) == IF seq = <<>> THEN <<>> ELSE seq[Len(seq)]

\* the value of a byte as it arrives
Values(bytes) == [i \in 1..Len(bytes) |-> bytes[i].b]

\* ServerConnection::recv_bytes_inner: the connection after it, the bytes
\* consumed (all of them for RecvBytesResult::Full), the error, the abort
Inner(c, consumed, err, panic) == [c |-> c, consumed |-> consumed, err |-> err, panic |-> panic]

\* a ProtoExchange state that takes the line as complete at its first CR
OnProtoExchangeUntilCr(c, buf, len) ==
    IF \E i \in DOMAIN buf : buf[i] = CR
    THEN Inner([c EXCEPT !.pt = queue_send_protocol_info(@, server_identification), !.state = KeyExchangeInit(buf)], len, "Ok", FALSE)
    ELSE Inner([c EXCEPT !.state = ProtoExchange(buf)], len, "Ok", FALSE)

\* recv_bytes_inner, state ProtoExchange: the bytes go to the ident parser
OnProtoExchange(c, buf, len) ==
    IF has_crlf(buf)
    THEN Inner([c EXCEPT !.pt = queue_send_protocol_info(@, server_identification), !.state = KeyExchangeInit(buf)], len, "Ok", FALSE)
    ELSE Inner([c EXCEPT !.state = ProtoExchange(buf)], len, "Ok", FALSE)

\* recv_bytes_inner: Ok(consumed) after the loop over the packets
Consumed(out, consumed) == Inner(out.c, consumed, out.err, FALSE)

\* recv_bytes_inner: the packets are handled once the transport has taken
\* the bytes
OnPackets(c, s, len) ==
    IF s.panic \/ s.err # "Ok" THEN Inner([c EXCEPT !.pt = s.pt], 0, s.err, s.panic)
    ELSE Consumed(HandlePackets([c EXCEPT !.pt = s.pt]), IF s.some THEN s.consumed ELSE len)

\* PacketTransport::recv_bytes of the server's transport: it takes the bytes of
\* one packet at most and returns RecvBytesResult::Partial with the count when
\* it completed a packet, RecvBytesResult::Full when it took all the bytes
transport_recv_bytes(pt, bytes) == recv_bytes_step(pt, bytes)

\* a recv_bytes_inner whose transport frames every packet of the buffer before
\* the first of them is handled
recv_bytes_inner_unfenced(c, bytes) ==
    IF c.state.name = "ProtoExchange" THEN OnProtoExchange(c, c.state.ident_parser \o Values(bytes), Len(bytes))
    ELSE OnPackets(c, PacketTransport_recv_bytes(c.pt, bytes), Len(bytes))

\* ServerConnection::recv_bytes_inner
ServerConnection_recv_bytes_inner(c, bytes) ==
    IF c.state.name = "ProtoExchange" THEN OnProtoExchange(c, c.state.ident_parser \o Values(bytes), Len(bytes))
    ELSE OnPackets(c, transport_recv_bytes(c.pt, bytes), Len(bytes))

\* ServerConnection::recv_bytes: recv_bytes_inner until the bytes are used up
RECURSIVE ServerConnection_recv_bytes(_, _)

\* while let RecvBytesResult::Partial { consumed }
WhilePartial(r, bytes) ==
    IF r.panic \/ r.err # "Ok" \/ r.consumed >= Len(bytes) THEN r
    ELSE ServerConnection_recv_bytes(r.c, SubSeq(bytes, r.consumed + 1, Len(bytes)))

ServerConnection_recv_bytes(c, bytes) == WhilePartial(ServerConnection_recv_bytes_inner(c, bytes), bytes)

\* ServerConnection::do_key_exchange, state WaitingForKeyExchange
do_key_exchange(c, h, k) ==
    [c EXCEPT !.pt = queue_packet(@, <<SSH_MSG_KEX_ECDH_REPLY, h>>), !.state = NewKeys(h, k)]

(***************************************************************************)
(* SpecTransport: a ServerConnection and its client.  The client writes    *)
(* its identification line and up to MaxClientPackets packets, and         *)
(* switches to the session keys when it sends NEWKEYS after the exchange;  *)
(* the driver hands the bytes to recv_bytes in pieces, answers the key     *)
(* exchange, takes the messages and the packets out, and sends up to       *)
(* MaxHostPackets packets of its own.  As in the driver's loop, every      *)
(* queued message is sent off before the next bytes are read.  The client  *)
(* writes a packet behind bytes still in flight only behind its NEWKEYS,   *)
(* up to MaxPipelined times; up to MaxNoise of its packets are             *)
(* SSH_MSG_IGNORE or SSH_MSG_DEBUG.                                        *)
(***************************************************************************)
MaxHostPackets == 1

MaxPipelined == 1

MaxNoise == 1

\* the identification lines of the client, the second with a lone CR in it
IdentLines == {<<83, CR, LF>>, <<83, CR, 83, CR, LF>>}

\* the payloads the client sends
ClientPayloads ==
    {<<SSH_MSG_KEXINIT, 1>>, <<SSH_MSG_KEXINIT, 2>>, <<SSH_MSG_KEXINIT, 3>>, <<SSH_MSG_KEXINIT, 4>>,
     <<SSH_MSG_KEXINIT>>,
     <<SSH_MSG_KEX_ECDH_INIT, 1>>, <<SSH_MSG_KEX_ECDH_INIT>>,
     <<SSH_MSG_NEWKEYS>>, <<SSH_MSG_NEWKEYS, 0>>,
     <<SSH_MSG_SERVICE_REQUEST, 1>>, <<SSH_MSG_SERVICE_REQUEST, 2>>, <<SSH_MSG_SERVICE_REQUEST>>,
     <<SSH_MSG_EXT_INFO, 0>>, <<SSH_MSG_EXT_INFO>>,
     <<SSH_MSG_IGNORE, 0>>, <<SSH_MSG_IGNORE>>, <<SSH_MSG_DEBUG, 1>>, <<SSH_MSG_DEBUG>>,
     <<SSH_MSG_DISCONNECT, 11>>, <<SSH_MSG_DISCONNECT>>,
     <<SSH_MSG_CHANNEL_OPEN, 0>>}

\* the lengths of the pieces the driver reads: a frame, a frame and a part
TransportChunkLens == {16, 20}

\* the pieces the driver may read next: the identification line is cut
\* anywhere
Pieces ==
    IF server_state.name = "ProtoExchange" THEN 1..Len(wire)
    ELSE {n \in TransportChunkLens \cup {Len(wire)} : n \in 1..Len(wire)}

\* SSH_MSG_IGNORE and SSH_MSG_DEBUG among the packets the client has written
Noise == {i \in DOMAIN transport_log.frames : packet_type(transport_log.frames[i]) \in {SSH_MSG_IGNORE, SSH_MSG_DEBUG}}

\* ServerConnection::new, and a client that has written nothing
InitTransport ==
    /\ ChannelsIdle
    /\ NoDriver
    /\ args = <<>>
    /\ returned = <<>>
    /\ server_state = ProtoExchange(<<>>)
    /\ packet_transport = ServerTransport_new
    /\ plaintext_packets = <<>>
    /\ wire = <<>>
    /\ client = [keys |-> Plaintext, seq |-> 0]
    /\ transport_log = [ident |-> <<>>, frames |-> <<>>, exchange |-> <<>>, msgs |-> <<>>, handled |-> <<>>, pipelined |-> 0, host |-> 0]

\* the connection has not failed
TransportRunning == ~panicked /\ result \notin TransportErrors

\* the client writes its identification line
ClientWritesIdent(line) ==
    /\ TransportRunning
    /\ transport_log.ident = <<>>
    /\ wire' = wire \o ClearBytes(line)
    /\ transport_log' = [transport_log EXCEPT !.ident = line]
    /\ UNCHANGED <<channel_layer, function_vars, driver_vars, server_state, packet_transport, plaintext_packets, client>>

\* the client writes a packet; it writes NEWKEYS once the exchange has given
\* it the keys, and takes them into use behind it
ClientWrites(payload) ==
    /\ TransportRunning
    /\ transport_log.ident # <<>>
    /\ payload = <<SSH_MSG_NEWKEYS>> => transport_log.exchange # <<>>
    /\ Len(transport_log.frames) < MaxClientPackets
    /\ packet_type(payload) \in {SSH_MSG_IGNORE, SSH_MSG_DEBUG} => Cardinality(Noise) < MaxNoise
    /\ wire # <<>> => transport_log.pipelined < MaxPipelined /\ Last(transport_log.frames) = <<SSH_MSG_NEWKEYS>>
    /\ wire' = wire \o Encrypted(client.keys, to_bytes(payload), client.seq)
    /\ client' = [keys |-> IF payload = <<SSH_MSG_NEWKEYS>>
                           THEN Session_new(transport_log.exchange[1], transport_log.exchange[2])
                           ELSE client.keys,
                  seq |-> client.seq + 1]
    /\ transport_log' = [transport_log EXCEPT !.frames = Append(@, payload), !.pipelined = IF wire # <<>> THEN @ + 1 ELSE @]
    /\ UNCHANGED <<channel_layer, function_vars, driver_vars, server_state, packet_transport, plaintext_packets>>

\* the connection as the variables hold it
TheConn == Conn(server_state, packet_transport, plaintext_packets, <<>>)

\* the connection is stored, the messages it queued are added to the history
Stored(c, host) ==
    /\ server_state' = c.state
    /\ packet_transport' = c.pt
    /\ plaintext_packets' = c.plain
    /\ transport_log' = [transport_log EXCEPT !.msgs = @ \o SubSeq(c.pt.send_packets, Len(packet_transport.send_packets) + 1, Len(c.pt.send_packets)),
                                              !.handled = @ \o c.handled,
                                              !.host = IF host THEN @ + 1 ELSE @,
                                              !.exchange = IF c.state.name = "NewKeys" /\ server_state.name # "NewKeys" THEN <<c.state.hash, c.state.shared_secret>> ELSE @]

\* recv_bytes returns: the connection is stored with what the call did to it
Return(r) == Stored(r.c, FALSE) /\ result' = r.err /\ panicked' = r.panic

\* the driver calls ServerConnection::recv_bytes with the next n bytes
RecvBytes(n) ==
    /\ TransportRunning
    /\ packet_transport.send_packets = <<>>
    /\ n \in Pieces
    /\ Return(ServerConnection_recv_bytes(TheConn, SubSeq(wire, 1, n)))
    /\ wire' = SubSeq(wire, n + 1, Len(wire))
    /\ UNCHANGED <<packets_to_send, channel_updates, channels, next_channel_id, is_server, out_log, upd_log, hist, steps, budget, last_call, close_called>>
    /\ UNCHANGED <<function_vars, driver_vars, client>>

\* the driver calls ServerConnection::do_key_exchange with a response
DoKeyExchange(h, k) ==
    /\ TransportRunning
    /\ packet_transport.send_packets = <<>>
    /\ IF server_state.name = "WaitingForKeyExchange"
       THEN Stored(do_key_exchange(TheConn, h, k), FALSE) /\ UNCHANGED panicked
       ELSE panicked' = TRUE /\ UNCHANGED transport_vars
    /\ UNCHANGED <<packets_to_send, channel_updates, channels, next_channel_id, is_server, result, out_log, upd_log, hist, steps, budget, last_call, close_called>>
    /\ UNCHANGED <<function_vars, driver_vars, wire, client>>

\* ServerConnection::next_msg_to_send
NextMsgToSend ==
    /\ TransportRunning
    /\ packet_transport.send_packets # <<>>
    /\ packet_transport' = [packet_transport EXCEPT !.send_packets = Tail(@)]
    /\ UNCHANGED <<channel_layer, function_vars, driver_vars, server_state, plaintext_packets, wire, client, transport_log>>

\* ServerConnection::next_plaintext_packet
NextPlaintextPacket ==
    /\ TransportRunning
    /\ plaintext_packets # <<>>
    /\ plaintext_packets' = Tail(plaintext_packets)
    /\ UNCHANGED <<channel_layer, function_vars, driver_vars, server_state, packet_transport, wire, client, transport_log>>

\* ServerConnection::send_plaintext_packet, once the connection is_open
SendPlaintextPacket(packet) ==
    /\ TransportRunning
    /\ server_state.name = "Open"
    /\ transport_log.host < MaxHostPackets
    /\ Stored([TheConn EXCEPT !.pt = queue_packet(@, packet)], TRUE)
    /\ UNCHANGED <<channel_layer, function_vars, driver_vars, wire, client>>

NextTransport ==
    \/ \E line \in IdentLines : ClientWritesIdent(line)
    \/ \E payload \in ClientPayloads : ClientWrites(payload)
    \/ \E n \in 1..Len(wire) : RecvBytes(n)
    \/ \E h \in Hashes : DoKeyExchange(h, 1)
    \/ NextMsgToSend
    \/ NextPlaintextPacket
    \/ SendPlaintextPacket(<<SSH_MSG_CHANNEL_OPEN, 0>>)

SpecTransport == InitTransport /\ [][NextTransport]_vars

(***************************************************************************)
(* C15: the state of the ServerConnection only moves forward.              *)
(***************************************************************************)
\* the states in the order of the handshake
StateOrder == <<"ProtoExchange", "KeyExchangeInit", "DhKeyInit", "WaitingForKeyExchange", "NewKeys", "ServiceRequest", "Open">>

Rank(name) == CHOOSE i \in DOMAIN StateOrder : StateOrder[i] = name

\* from one state to the same state or to its immediate successor
StaysOrAdvances(before, after) == Rank(after.name) \in {Rank(before.name), Rank(before.name) + 1}

\* the packets handled by the step
NewlyHandled == SubSeq(transport_log.handled', Len(transport_log.handled) + 1, Len(transport_log.handled'))

\* the states the step went through: before and after each packet it handled,
\* from the state before the step to the state after it
StatesOfStep(new) ==
    /\ new[1].before = server_state
    /\ new[Len(new)].after = server_state'
    /\ \A i \in 1..(Len(new) - 1) : new[i + 1].before = new[i].after

StepForward ==
    IF NewlyHandled = <<>> THEN StaysOrAdvances(server_state, server_state')
    ELSE /\ StatesOfStep(NewlyHandled)
         /\ \A i \in DOMAIN NewlyHandled :
               /\ StaysOrAdvances(NewlyHandled[i].before, NewlyHandled[i].after)
               /\ NewlyHandled[i].err # "Ok" => NewlyHandled[i].after = NewlyHandled[i].before

\* C15: every change of the ServerConnection's state, by bytes, by a packet or
\* by a key-exchange response, goes from a state to its immediate successor in
\* the order ProtoExchange, KeyExchangeInit, DhKeyInit, WaitingForKeyExchange,
\* NewKeys, ServiceRequest, Open, and a packet that is rejected leaves the
\* state as it was.
C15_Forward == [][StepForward]_vars

\* the handshake went forward up to ServiceRequest and a packet was rejected there
C15_Witness ==
    /\ result \in TransportErrors
    /\ transport_log.handled # <<>>
    /\ Last(transport_log.handled).before.name = "ServiceRequest"
    /\ Last(transport_log.handled).err = result
    /\ server_state.name = "ServiceRequest"

(***************************************************************************)
(* C16: a KEXINIT of the client in state Open.                             *)
(***************************************************************************)
\* the packets handled in state Open that are the client's KEXINIT
KexInitsInOpen ==
    {i \in DOMAIN transport_log.handled :
        /\ transport_log.handled[i].before.name = "Open"
        /\ transport_log.handled[i].payload = <<SSH_MSG_KEXINIT, 1>>}

\* C16: rekeying is supported: when the ServerConnection is in Open and the
\* client sends a new KEXINIT, the state machine starts a fresh key exchange
\* (it leaves Open for the states KeyExchangeInit through NewKeys, to return to
\* Open later); the KEXINIT is consumed by the transport, not handed on as a
\* packet of the open connection.
C16_Rekeying ==
    \A i \in KexInitsInOpen :
        /\ transport_log.handled[i].after.name \in {"KeyExchangeInit", "DhKeyInit"}
        /\ transport_log.handled[i].forwarded = 0

(***************************************************************************)
(* C17: NEWKEYS is a fence in both directions.                             *)
(***************************************************************************)
\* the keys of the exchange, as both ends derive them
ExchangedKeys == Session_new(transport_log.exchange[1], transport_log.exchange[2])

\* the places of the NEWKEYS that took keys into use among the client's packets
ClientNewKeys == {i \in DOMAIN transport_log.frames : transport_log.frames[i] = <<SSH_MSG_NEWKEYS>>}

\* the places of the server's NEWKEYS among the messages it queued
ServerNewKeys == {i \in DOMAIN transport_log.msgs : transport_log.msgs[i].kind # "ServerProtocolInfo" /\ transport_log.msgs[i].payload = <<SSH_MSG_NEWKEYS>>}

\* every packet the server handled is the packet the client wrote at that
\* place, and the packets behind the client's NEWKEYS were taken in with the
\* keys of the exchange
InboundFence ==
    /\ result # MacFailure
    /\ Len(transport_log.handled) <= Len(transport_log.frames)
    /\ \A i \in DOMAIN transport_log.handled : transport_log.handled[i].payload = transport_log.frames[i]
    /\ \A n \in ClientNewKeys : \A i \in DOMAIN transport_log.handled :
          i > n => transport_log.handled[i].keys_before = ExchangedKeys
    /\ TransportRunning /\ wire = <<>> => Len(transport_log.handled) = Len(transport_log.frames)

\* the messages queued behind the server's NEWKEYS are encrypted with the keys
\* of the exchange, the NEWKEYS itself and the messages before it are not
OutboundFence ==
    \A n \in ServerNewKeys : \A i \in DOMAIN transport_log.msgs :
        IF i > n THEN /\ transport_log.msgs[i].kind = "EncryptedPacket"
                      /\ transport_log.msgs[i].key = ExchangedKeys.to_peer
        ELSE transport_log.msgs[i].kind \in {"ServerProtocolInfo", "PlaintextPacket"}

IdentReceived == SubSeq(transport_log.ident, 1, Len(transport_log.ident) - Len(wire))

\* the identification messages among the messages the server queued
IdentMessages == {i \in DOMAIN transport_log.msgs : transport_log.msgs[i].kind = "ServerProtocolInfo"}

\* C18: for every way of cutting the client's identification line into
\* recv_bytes calls, the ServerConnection stays in ProtoExchange and queues
\* nothing while the line is incomplete; the call that completes the line
\* (CR LF received) queues the server identification, once, and moves to
\* KeyExchangeInit; one identification message at most is ever queued, and it
\* is the first message.
C18_Identification ==
    /\ transport_log.frames = <<>> =>
          IF transport_log.ident # <<>> /\ IdentReceived = transport_log.ident
          THEN /\ server_state = KeyExchangeInit(transport_log.ident)
               /\ transport_log.msgs = <<Msg("ServerProtocolInfo", server_identification, <<>>, 0)>>
          ELSE /\ server_state = ProtoExchange(IdentReceived)
               /\ transport_log.msgs = <<>>
    /\ IdentMessages = IF server_state.name = "ProtoExchange" THEN {} ELSE {1}

\* the line was cut between its CR and its LF: the server holds all of it but
\* the LF, a lone CR within
C18_Witness ==
    /\ server_state.name = "ProtoExchange"
    /\ Len(wire) = 1
    /\ Len(server_state.ident_parser) = 4
    /\ server_state.ident_parser[2] = CR
    /\ server_state.ident_parser[4] = CR

(***************************************************************************)
(* C19: the packets handled in state ServiceRequest.                       *)
(***************************************************************************)
\* the packets handled in state ServiceRequest
InServiceRequest == {i \in DOMAIN transport_log.handled : transport_log.handled[i].before.name = "ServiceRequest"}

\* the SERVICE_ACCEPT packets among the messages the server queued
ServiceAccepts == {i \in DOMAIN transport_log.msgs : transport_log.msgs[i].kind # "ServerProtocolInfo" /\ packet_type(transport_log.msgs[i].payload) = SSH_MSG_SERVICE_ACCEPT}

\* the request for ssh-userauth is answered with one packet and opens the connection
Accepted(e) == e.err = "Ok" /\ e.after = Open(e.before.session_id) /\ e.queued = 1

\* the packet is an EXT_INFO and the state still permits one
PermittedExtInfo(e) == packet_type(e.payload) = SSH_MSG_EXT_INFO /\ e.before.may_send_extensions

\* the packet returns an error, queues nothing and leaves the state as it was
Refused(e) == e.err \in TransportErrors /\ e.queued = 0 /\ e.after = e.before

\* one SERVICE_ACCEPT is queued, in the step to Open
OneServiceAccept == Cardinality(ServiceAccepts) = IF server_state.name = "Open" THEN 1 ELSE 0

\* C19 as stated: in state ServiceRequest the ServerConnection moves to Open
\* and queues one SERVICE_ACCEPT only for an SSH_MSG_SERVICE_REQUEST naming
\* ssh-userauth; a SERVICE_REQUEST for another service, and every packet of a
\* type other than SERVICE_REQUEST and the permitted EXT_INFO, returns an
\* error, queues no SERVICE_ACCEPT and leaves the state ServiceRequest.
C19_OnlyServiceRequestOrExtInfo ==
    /\ OneServiceAccept
    /\ \A i \in InServiceRequest :
          LET e == transport_log.handled[i]
          IN  CASE e.payload = <<SSH_MSG_SERVICE_REQUEST, SshUserauth>> -> Accepted(e)
                [] PermittedExtInfo(e) -> e.after.name = "ServiceRequest" /\ e.queued = 0
                [] OTHER -> Refused(e)

\* C19, amended: as stated, except that a well-formed SSH_MSG_IGNORE or
\* SSH_MSG_DEBUG returns no error in state ServiceRequest either: it is
\* skipped, queues nothing and leaves the state as it was.
C19_ServiceRequest ==
    /\ OneServiceAccept
    /\ \A i \in InServiceRequest :
          LET e == transport_log.handled[i]
          IN  CASE e.payload = <<SSH_MSG_SERVICE_REQUEST, SshUserauth>> -> Accepted(e)
                [] PermittedExtInfo(e) -> e.after.name = "ServiceRequest" /\ e.queued = 0
                [] packet_type(e.payload) \in {SSH_MSG_IGNORE, SSH_MSG_DEBUG} /\ WellFormed(e.payload) ->
                      e.err = "Ok" /\ e.queued = 0 /\ e.after = e.before
                [] OTHER -> Refused(e)

\* in state ServiceRequest an IGNORE or DEBUG was skipped, and then a
\* SERVICE_REQUEST for another service was refused
C19_Witness ==
    /\ \E i \in InServiceRequest :
          /\ packet_type(transport_log.handled[i].payload) \in {SSH_MSG_IGNORE, SSH_MSG_DEBUG}
          /\ transport_log.handled[i].err = "Ok"
    /\ Last(transport_log.handled).payload = <<SSH_MSG_SERVICE_REQUEST, 2>>
    /\ result = OnlyUserauth
    /\ server_state.name = "ServiceRequest"

(***************************************************************************)
(* C20: IGNORE, DEBUG and DISCONNECT in the states after the               *)
(* identification exchange.                                                *)
(***************************************************************************)
\* the packet changed nothing: not the state, not the keys, no message queued,
\* no packet handed on
NoEffect(e) == e.after = e.before /\ e.keys_after = e.keys_before /\ e.queued = 0 /\ e.forwarded = 0

\* C20: in every state after the identification exchange a well-formed
\* SSH_MSG_IGNORE or SSH_MSG_DEBUG returns no error and has no effect: the
\* state is unchanged, no outbound packet is queued and the packet is not
\* pushed to plaintext_packets; a well-formed SSH_MSG_DISCONNECT makes
\* recv_bytes return the Disconnect status.
C20_IgnoreDebugDisconnect ==
    /\ \A i \in DOMAIN transport_log.handled :
          LET e == transport_log.handled[i]
          IN  /\ packet_type(e.payload) \in {SSH_MSG_IGNORE, SSH_MSG_DEBUG} /\ WellFormed(e.payload) =>
                    e.err = "Ok" /\ NoEffect(e)
              /\ packet_type(e.payload) = SSH_MSG_DISCONNECT /\ WellFormed(e.payload) =>
                    e.err = Disconnect /\ NoEffect(e) /\ i = Len(transport_log.handled) /\ result = Disconnect
    /\ \A i \in DOMAIN plaintext_packets : packet_type(plaintext_packets[i]) \notin {SSH_MSG_IGNORE, SSH_MSG_DEBUG, SSH_MSG_DISCONNECT}

\* an IGNORE or DEBUG was skipped while the server waited for the key
\* exchange, where every other packet is an error, and a DISCONNECT ended the
\* connection in state ServiceRequest
C20_Witness ==
    /\ \E i \in DOMAIN transport_log.handled :
          /\ packet_type(transport_log.handled[i].payload) \in {SSH_MSG_IGNORE, SSH_MSG_DEBUG}
          /\ transport_log.handled[i].before.name = "WaitingForKeyExchange"
          /\ transport_log.handled[i].err = "Ok"
    /\ Last(transport_log.handled).payload = <<SSH_MSG_DISCONNECT, 11>>
    /\ Last(transport_log.handled).before.name = "ServiceRequest"
    /\ result = Disconnect

(***************************************************************************)
(* SpecOpen: the opening of channels.  The peer opens channels of either   *)
(* type with several windows and packet sizes, confirms or refuses any     *)
(* channel number (allocated or not) and closes; the host creates          *)
(* channels.                                                               *)
(***************************************************************************)
OpenWindows == {0, 5}
OpenPacketSizes == {1, 9}
\* the numbers a packet of the peer may name: the allocated ones and the next
NamedNumbers == 0..next_channel_id

InitOpen == Init /\ is_server = TRUE /\ budget = MaxSteps

NextOpen ==
    \/ \E t \in ChannelTypes, s \in PeerChannels, w \in OpenWindows, m \in OpenPacketSizes :
          RecvChannelOpen(t, s, w, m)
    \/ CreateChannel
    \/ \E n \in NamedNumbers, s \in PeerChannels, w \in OpenWindows, m \in OpenPacketSizes :
          RecvChannelOpenConfirmation(n, s, w, m)
    \/ \E n \in NamedNumbers : RecvChannelOpenFailure(n)
    \/ \E n \in NamedNumbers : RecvChannelClose(n)

SpecOpen == InitOpen /\ [][NextOpen]_vars

(***************************************************************************)
(* C21: an inbound CHANNEL_OPEN of type session allocates a fresh local    *)
(* number, inserts an Open channel with the peer's number, window and      *)
(* maximum packet size, and emits one CHANNEL_OPEN_CONFIRMATION and one    *)
(* Open update; of any other type it emits exactly one                     *)
(* CHANNEL_OPEN_FAILURE with reason UNKNOWN_CHANNEL_TYPE addressed to the  *)
(* peer's channel number, no update, and leaves the table and the          *)
(* channel-number counter unchanged.                                       *)
(***************************************************************************)
C21_Accepted(s, w, m) ==
    LET our_number == next_channel_id IN
    /\ our_number \notin DOMAIN channels
    /\ next_channel_id' = our_number + 1
    /\ DOMAIN channels' = DOMAIN channels \cup {our_number}
    /\ \A n \in DOMAIN channels : channels'[n] = channels[n]
    /\ channels'[our_number].state = "Open"
    /\ channels'[our_number].peer_channel = s
    /\ channels'[our_number].peer_window_size = w
    /\ channels'[our_number].peer_max_packet_size = m
    /\ packets_to_send' = Append(packets_to_send,
            Packet("CHANNEL_OPEN_CONFIRMATION", s, our_number, w, m, None, <<>>))
    /\ channel_updates' = Append(channel_updates,
            ChannelUpdate(our_number, "Open", "Session", 0))
    /\ result' = "Ok"

C21_Refused(s) ==
    /\ Len(packets_to_send') = Len(packets_to_send) + 1
    /\ SubSeq(packets_to_send', 1, Len(packets_to_send)) = packets_to_send
    /\ Last(packets_to_send').type = "CHANNEL_OPEN_FAILURE"
    /\ Last(packets_to_send').code = SSH_OPEN_UNKNOWN_CHANNEL_TYPE
    /\ Last(packets_to_send').recipient = s
    /\ UNCHANGED <<channel_updates, channels, next_channel_id>>

C21_Step ==
    \A t \in ChannelTypes, s \in PeerChannels, w \in OpenWindows, m \in OpenPacketSizes :
        RecvChannelOpen(t, s, w, m)
            => IF t = "session" THEN C21_Accepted(s, w, m) ELSE C21_Refused(s)

\* C21: CHANNEL_OPEN of type session opens a fresh channel with the peer's
\* parameters, one confirmation and one Open update; any other type gets one
\* CHANNEL_OPEN_FAILURE (UNKNOWN_CHANNEL_TYPE) and changes neither table nor counter
C21_ChannelOpen == [][C21_Step]_vars

\* a session channel was opened with the peer's window, then a CHANNEL_OPEN of
\* another type was refused
C21_Witness ==
    /\ last_call.name = "recv_packet" /\ last_call.kind = "CHANNEL_OPEN"
    /\ packets_to_send # <<>>
    /\ Last(packets_to_send).type = "CHANNEL_OPEN_FAILURE"
    /\ \E n \in DOMAIN channels :
          channels[n].state = "Open" /\ channels[n].peer_window_size = 5

(***************************************************************************)
(* C22: a channel made by create_channel is AwaitingConfirmation until the *)
(* peer answers: CHANNEL_OPEN_CONFIRMATION makes it Open with the peer's   *)
(* parameters and emits one Open update, CHANNEL_OPEN_FAILURE removes it   *)
(* and emits one OpenFailed update; a confirmation or failure naming a     *)
(* channel that is not AwaitingConfirmation returns an error and changes   *)
(* nothing.                                                                *)
(***************************************************************************)
\* channel `n` is in the table, in state AwaitingConfirmation
C22_Awaiting(n) ==
    n \in DOMAIN channels /\ channels[n].state = "AwaitingConfirmation"

\* the state of the multiplexer that a rejected packet must leave alone
C22_Untouched ==
    UNCHANGED <<packets_to_send, channel_updates, channels, next_channel_id, panicked>>

\* create_channel leaves the new channel AwaitingConfirmation
C22_Created ==
    (last_call'.name = "create_channel" /\ ~panicked')
        => /\ next_channel_id' = next_channel_id + 1
           /\ next_channel_id \in DOMAIN channels'
           /\ channels'[next_channel_id].state = "AwaitingConfirmation"

\* only the peer's answer ends the wait
C22_Waits ==
    \A n \in DOMAIN channels :
        C22_Awaiting(n)
            => \/ n \in DOMAIN channels' /\ channels'[n] = channels[n]
               \/ /\ last_call'.name = "recv_packet" /\ last_call'.number = n
                  /\ last_call'.kind \in {"CHANNEL_OPEN_CONFIRMATION", "CHANNEL_OPEN_FAILURE"}

C22_Confirmation ==
    \A n \in NamedNumbers, s \in PeerChannels, w \in OpenWindows, m \in OpenPacketSizes :
        RecvChannelOpenConfirmation(n, s, w, m)
            => IF C22_Awaiting(n)
               THEN /\ DOMAIN channels' = DOMAIN channels
                    /\ \A k \in DOMAIN channels \ {n} : channels'[k] = channels[k]
                    /\ channels'[n].state = "Open"
                    /\ channels'[n].peer_channel = s
                    /\ channels'[n].peer_window_size = w
                    /\ channels'[n].peer_max_packet_size = m
                    /\ channels'[n].our_window_size = channels[n].our_window_size
                    /\ channels'[n].our_max_packet_size = channels[n].our_max_packet_size
                    /\ channel_updates' = Append(channel_updates,
                            ChannelUpdate(n, "Open", "Session", 0))
                    /\ result' = "Ok"
               ELSE result' \in Errors /\ C22_Untouched

C22_Failure ==
    \A n \in NamedNumbers :
        RecvChannelOpenFailure(n)
            => IF C22_Awaiting(n)
               THEN /\ DOMAIN channels' = DOMAIN channels \ {n}
                    /\ \A k \in DOMAIN channels' : channels'[k] = channels[k]
                    /\ channel_updates' = Append(channel_updates,
                            ChannelUpdate(n, "OpenFailed", "", 0))
                    /\ result' = "Ok"
               ELSE result' \in Errors /\ C22_Untouched

\* C22: a created channel awaits the peer's answer; a confirmation opens it with
\* the peer's parameters and one Open update, a failure removes it with one
\* OpenFailed update, and either packet naming any other channel is an error
\* that changes nothing
C22_AwaitingConfirmation ==
    [][C22_Created /\ C22_Waits /\ C22_Confirmation /\ C22_Failure]_vars

\* a created channel was confirmed with the peer's window, and a second
\* confirmation naming it, now open, was rejected
C22_Witness ==
    /\ last_call.name = "recv_packet" /\ last_call.kind = "CHANNEL_OPEN_CONFIRMATION"
    /\ result = UnknownChannel
    /\ last_call.number \in DOMAIN channels
    /\ channels[last_call.number].state = "Open"
    /\ channels[last_call.number].our_window_size = CreateWindowSize
    /\ channels[last_call.number].peer_window_size = 5

\* a created channel was refused by the peer, and a failure naming it again,
\* now closed, was rejected
C22_WitnessFailure ==
    /\ last_call.name = "recv_packet" /\ last_call.kind = "CHANNEL_OPEN_FAILURE"
    /\ result = UnknownChannel
    /\ last_call.number \notin DOMAIN channels
    /\ \E i \in 1..Len(upd_log) :
          upd_log[i].number = last_call.number /\ upd_log[i].kind = "OpenFailed"

(***************************************************************************)
(* SpecPeer: the packets of the peer on one channel.  The peer opens a     *)
(* channel with a window of nothing, a few bytes or the largest word, and  *)
(* sends data on both streams, requests of a known and of an unknown type  *)
(* with and without want_reply, window grants and CHANNEL_CLOSE; the host sends data.       *)
(***************************************************************************)
PeerWindows == {0, 5, U32Max}
PeerPacketSizes == {2, 9}
PeerLens == {1, 6}
PeerGrants == {0, 1, U32Max}
HostLens == {1, 7}

PeerRequests == {"shell", "bogus"}

InitPeer == Init /\ is_server = TRUE /\ budget = MaxSteps

NextPeer ==
    \/ /\ NoChannelYet
       /\ \E s \in PeerChannels, w \in PeerWindows, m \in PeerPacketSizes :
             RecvChannelOpen("session", s, w, m)
    \/ \E n \in NamedNumbers, l \in PeerLens : RecvChannelData(n, l)
    \/ \E n \in NamedNumbers, c \in ExtCodes, l \in PeerLens :
          RecvChannelExtendedData(n, c, l)
    \/ \E n \in NamedNumbers, t \in PeerRequests, r \in BOOLEAN :
          RecvChannelRequest(n, t, r)
    \/ \E n \in NamedNumbers, b \in PeerGrants : RecvChannelWindowAdjust(n, b)
    \/ \E n \in NamedNumbers : RecvChannelClose(n)
    \/ \E n \in LiveNumbers, l \in HostLens :
          DoOperation(Operation(n, "Data", None, Payload(n, l), ""))

SpecPeer == InitPeer /\ [][NextPeer]_vars

(***************************************************************************)
(* C23: an inbound CHANNEL_EXTENDED_DATA on an open channel is handled     *)
(* like CHANNEL_DATA: the channel is validated, our window is decremented  *)
(* (the packet fails when the window underflows or the data exceeds our    *)
(* maximum packet size) and an ExtendedData update with the code and the   *)
(* data is emitted.                                                        *)
(***************************************************************************)
C23_Handled(n, c, l) ==
    IF channels[n].our_window_size < l \/ channels[n].our_max_packet_size < l
    THEN result' \in Errors /\ ~panicked'
    ELSE /\ ~panicked'
         /\ result' = "Ok"
         /\ channel_updates' # channel_updates
         /\ Last(channel_updates').number = n
         /\ Last(channel_updates').kind = "ExtendedData"
         /\ Last(channel_updates').len = l

C23_Step ==
    \A n \in NamedNumbers, c \in ExtCodes, l \in PeerLens :
        (RecvChannelExtendedData(n, c, l) /\ channel_ok(n)) => C23_Handled(n, c, l)

\* C23: CHANNEL_EXTENDED_DATA on an open channel either fails on the window or
\* the packet size, or emits an ExtendedData update for the channel
C23_ExtendedData == [][C23_Step]_vars

(***************************************************************************)
(* C24: a CHANNEL_REQUEST with an unknown request type is answered with    *)
(* CHANNEL_FAILURE when want_reply is true and with nothing when it is     *)
(* false; no update is emitted and the channel state is unchanged.         *)
(***************************************************************************)
C24_Step ==
    \A n \in NamedNumbers, r \in BOOLEAN :
        (RecvChannelRequest(n, "bogus", r) /\ channel_ok(n))
            => /\ packets_to_send' =
                    IF r THEN Append(packets_to_send,
                                     new_msg_channel_failure(channels[n].peer_channel))
                    ELSE packets_to_send
               /\ UNCHANGED <<channel_updates, channels>>

\* C24: an unknown request type gets one CHANNEL_FAILURE if it wants a reply and
\* nothing otherwise, with no update and no change of the channel
C24_UnknownRequest == [][C24_Step]_vars

(***************************************************************************)
(* C25: a CHANNEL_WINDOW_ADJUST whose delta would raise the peer window    *)
(* above 2^32 - 1 makes recv_packet return an error, with the peer window  *)
(* and the queues unchanged and no packet emitted; every other delta       *)
(* raises the peer window by exactly the delta before the queues are       *)
(* drained.                                                                *)
(***************************************************************************)
RECURSIVE DataBytes(_)
\* the number of data bytes carried by a sequence of packets
DataBytes(packets) ==
    IF packets = <<>> THEN 0
    ELSE (IF IsDataPacket(Head(packets)) THEN Len(Head(packets).data) ELSE 0)
         + DataBytes(Tail(packets))

\* the packets queued by the step
NewPackets == SubSeq(packets_to_send', Len(packets_to_send) + 1, Len(packets_to_send'))

C25_Overflows(n, b) == channels[n].peer_window_size + b > U32Max

C25_Step ==
    \A n \in NamedNumbers, b \in PeerGrants :
        (RecvChannelWindowAdjust(n, b) /\ channel_ok(n))
            => IF C25_Overflows(n, b)
               THEN /\ result' \in Errors
                    /\ ~panicked'
                    /\ UNCHANGED <<channels, packets_to_send, channel_updates>>
               ELSE \/ panicked'
                    \/ /\ result' = "Ok"
                       /\ channels'[n].peer_window_size + DataBytes(NewPackets)
                              = channels[n].peer_window_size + b

\* C25: a grant that overflows the peer window is an error that changes nothing;
\* any other grant raises the peer window by the delta, of which the drained
\* bytes are then taken
C25_WindowAdjustOverflow == [][C25_Step]_vars

\* a grant overflowed the peer window of an open channel and was refused
C25_Witness ==
    /\ last_call.name = "recv_packet" /\ last_call.kind = "CHANNEL_WINDOW_ADJUST"
    /\ channel_ok(last_call.number)
    /\ result = ProtocolError
    /\ channels[last_call.number].peer_window_size > 0

\* a grant of the largest word was accepted by a channel whose peer window was
\* empty, and queued bytes were drained from it
C25_WitnessGranted ==
    /\ last_call.name = "recv_packet" /\ last_call.kind = "CHANNEL_WINDOW_ADJUST"
    /\ channel_ok(last_call.number)
    /\ result = "Ok"
    /\ channels[last_call.number].peer_window_size \in (U32Max - 7)..(U32Max - 1)

(***************************************************************************)
(* C26: after a CHANNEL_WINDOW_ADJUST with any delta >= 0 on an open       *)
(* channel with queued outbound bytes, the multiplexer has emitted exactly *)
(* min(default queue length, new peer window) bytes from the front of the  *)
(* default queue, split into packets of at most the peer's maximum packet  *)
(* size, and has then drained the extended queues only from the window     *)
(* that remained; recv_packet returns Ok, and a grant that finds           *)
(* everything sent emits nothing.                                          *)
(***************************************************************************)
RECURSIVE StreamData(_, _)
\* the bytes the CHANNEL_DATA (default = TRUE) or the CHANNEL_EXTENDED_DATA packets
\* of a sequence of packets carry, in order
StreamData(packets, default) ==
    IF packets = <<>> THEN <<>>
    ELSE (IF Head(packets).type = (IF default THEN "CHANNEL_DATA"
                                   ELSE "CHANNEL_EXTENDED_DATA")
          THEN Head(packets).data ELSE <<>>)
         \o StreamData(Tail(packets), default)

C26_Drained(n, b) ==
    LET channel == channels[n]
        queue == channel.queued_data_default
        window == channel.peer_window_size + b
        taken == Min(Len(queue), window)
    IN  /\ ~panicked'
        /\ result' = "Ok"
        /\ StreamData(NewPackets, TRUE) = SubSeq(queue, 1, taken)
        /\ \A i \in 1..Len(NewPackets) :
              /\ IsDataPacket(NewPackets[i])
              /\ Len(NewPackets[i].data) \in 1..channel.peer_max_packet_size
              /\ NewPackets[i].recipient = channel.peer_channel
        /\ \A i, j \in 1..Len(NewPackets) :
              (i < j /\ NewPackets[i].type = "CHANNEL_EXTENDED_DATA")
                  => NewPackets[j].type = "CHANNEL_EXTENDED_DATA"
        /\ Len(StreamData(NewPackets, FALSE)) <= window - taken
        /\ channels'[n].peer_window_size = window - DataBytes(NewPackets)

\* the grants of a step that is a CHANNEL_WINDOW_ADJUST on an open channel whose
\* new peer window fits the word
C26_Grants(n) ==
    {b \in FlowGrants : /\ RecvChannelWindowAdjust(n, b)
                        /\ channel_ok(n)
                        /\ channels[n].peer_window_size + b <= U32Max}

\* C26: a grant of any delta >= 0 drains min(default queue, new window) bytes of
\* the default queue in packets within the peer's packet size, then the extended
\* queues from the rest of the window, and returns Ok
C26_DrainOnGrant ==
    [][\A n \in LiveNumbers : \A b \in C26_Grants(n) : C26_Drained(n, b)]_vars

\* the grant leaves no window while bytes wait in the default queue
C26_NothingToTake(n, b) ==
    channels[n].queued_data_default # <<>> /\ channels[n].peer_window_size + b = 0

\* the same, for every grant but the one that leaves an empty window in front of
\* a default queue that is not empty
C26_DrainOnUsefulGrant ==
    [][\A n \in LiveNumbers : \A b \in C26_Grants(n) :
          ~C26_NothingToTake(n, b) => C26_Drained(n, b)]_vars

\* a grant drained the front of the default queue and left the rest queued
C26_WitnessUsefulGrant ==
    /\ last_call.name = "recv_packet" /\ last_call.kind = "CHANNEL_WINDOW_ADJUST"
    /\ channel_ok(last_call.number)
    /\ result = "Ok"
    /\ packets_to_send # <<>> /\ Last(packets_to_send).type = "CHANNEL_DATA"
    /\ channels[last_call.number].queued_data_default # <<>>

(***************************************************************************)
(* The tokio driver (cluelessh_tokio::server::ServerConnection).  The host *)
(* calls progress() in a loop; one call hands the updates of the           *)
(* multiplexer to the channels of the host, writes what is queued and then *)
(* waits in select! for the socket or for an operation of the host.  The   *)
(* driver sees the multiplexer through its two queues, channel_updates and *)
(* packets_to_send: recv_bytes of the connection appends the updates of    *)
(* the packets a read has brought, do_operation the packet of the          *)
(* operation.  Each channel of the host is a task that receives from a     *)
(* bounded queue of updates and sends into the bounded queue of            *)
(* operations.                                                             *)
(***************************************************************************)
MaxDriverChannels == 2

\* tokio::sync::mpsc::channel(10): the capacity of updates_send / updates_recv
UpdateCapacity == 10

\* tokio::sync::mpsc::channel(15): the capacity of channel_ops_send / channel_ops_recv
OpsCapacity == 15

\* the driver holds no update across an await
NoUpdate == ChannelUpdate(NoChannel, "", "", 0)

\* ServerConnection::new, seen at the top of the update loop of progress():
\* `queues` is `channels` (every entry ChannelState::Ready) with the queue behind
\* each updates_send; `blocked` are the channels whose task waits in
\* ops_send.send(..).await
ServerConnection_new ==
    [at |-> "updates", held |-> NoUpdate, queues |-> [n \in {} |-> <<>>],
     new_channels |-> <<>>, channel_ops |-> <<>>, blocked |-> {}]

\* the multiplexer's variables the driver leaves alone
mux_rest == <<channels, next_channel_id, is_server, result, panicked, out_log, upd_log,
              hist, steps, budget, last_call, close_called>>

\* Sender::send(..).await has room: it completes without waiting
HasRoom(number) == Len(driver.queues[number]) < UpdateCapacity

\* variant: the update for a full queue is dropped (try_send)
AfterSendDropping(update) ==
    IF HasRoom(update.number)
    THEN [driver EXCEPT !.queues[update.number] = Append(@, update.kind)]
    ELSE driver

\* "let _ = updates_send.send(update.kind).await": the update is queued, or the
\* driver waits with it until the queue has room
AfterSend(update) ==
    IF HasRoom(update.number)
    THEN [driver EXCEPT !.queues[update.number] = Append(@, update.kind)]
    ELSE [driver EXCEPT !.at = "send", !.held = update]

\* one turn of "while let Some(update) = channels.next_channel_update()"
DriverNextUpdate ==
    /\ driver.at = "updates"
    /\ channel_updates # <<>>
    /\ channel_updates' = Tail(channel_updates)
    /\ LET update == Head(channel_updates)
           known == update.number \in DOMAIN driver.queues
       IN  driver' =
             IF update.kind = "Open"
             THEN IF known
                  THEN [driver EXCEPT !.at = "failed"]   \* opened twice
                  ELSE [driver EXCEPT                    \* they opened
                          !.queues = [n \in DOMAIN @ \cup {update.number} |->
                                         IF n = update.number THEN <<>> ELSE @[n]],
                          !.new_channels = Append(@, update.number)]
             ELSE IF ~known
                  THEN [driver EXCEPT !.at = "failed"]   \* unknown channel
                  ELSE AfterSend(update)
    /\ UNCHANGED <<packets_to_send, mux_rest, function_vars, transport_vars>>

\* the send the driver waited in completes once the queue has room
DriverSendResumes ==
    /\ driver.at = "send"
    /\ HasRoom(driver.held.number)
    /\ driver' = [driver EXCEPT !.queues[driver.held.number] = Append(@, driver.held.kind),
                                !.at = "updates", !.held = NoUpdate]
    /\ UNCHANGED <<packets_to_send, channel_updates, mux_rest, function_vars, transport_vars>>

\* the loop is over: send_off_data writes every queued message, then select!
DriverSendOffData ==
    /\ driver.at = "updates"
    /\ channel_updates = <<>>
    /\ packets_to_send' = <<>>
    /\ driver' = [driver EXCEPT !.at = "select"]
    /\ UNCHANGED <<channel_updates, mux_rest, function_vars, transport_vars>>

\* what one read may bring: the opening of the next channel, or data for one or
\* two channels that are open
ReadUpdates ==
    LET open == DOMAIN driver.queues
        data(n) == ChannelUpdate(n, "Data", "", 1)
    IN  (IF Cardinality(open) < MaxDriverChannels
         THEN {<<ChannelUpdate(Cardinality(open), "Open", "Session", 0)>>} ELSE {})
        \cup {<<data(n)>> : n \in open}
        \cup {<<data(n), data(m)>> : n \in open, m \in open}

\* select!: stream.read returned bytes, proto.recv_bytes handled them; progress
\* returns and the host calls it again
SocketRead(updates) ==
    /\ driver.at = "select"
    /\ channel_updates' = channel_updates \o updates
    /\ driver' = [driver EXCEPT !.at = "updates"]
    /\ UNCHANGED <<packets_to_send, mux_rest, function_vars, transport_vars>>

\* select!: stream.read returned 0 bytes: progress returns the Disconnect error
SocketEof ==
    /\ driver.at = "select"
    /\ driver' = [driver EXCEPT !.at = "failed"]
    /\ UNCHANGED <<packets_to_send, channel_updates, mux_rest, function_vars,
                   transport_vars>>

\* select!: channel_ops_recv.recv() returned an operation: channels.do_operation
SelectChannelOp ==
    /\ driver.at = "select"
    /\ driver.channel_ops # <<>>
    /\ packets_to_send' = Append(packets_to_send, SimplePacket(Head(driver.channel_ops).kind, "", CHOOSE s \in PeerChannels : TRUE))
    /\ driver' = [driver EXCEPT !.channel_ops = Tail(@), !.at = "updates"]
    /\ UNCHANGED <<channel_updates, mux_rest, function_vars, transport_vars>>

\* the task of a channel receives the oldest update of its queue
HostTaskRecv(number) ==
    /\ driver.at # "failed"
    /\ number \in DOMAIN driver.queues
    /\ number \notin driver.blocked
    /\ driver.queues[number] # <<>>
    /\ driver' = [driver EXCEPT !.queues[number] = Tail(@)]
    /\ UNCHANGED <<packets_to_send, channel_updates, mux_rest, function_vars,
                   transport_vars>>

\* the task of a channel sends an operation; the tasks have at most one in flight
HostTaskSendOp(number) ==
    /\ driver.at # "failed"
    /\ number \in DOMAIN driver.queues
    /\ driver.channel_ops = <<>>
    /\ Len(driver.channel_ops) < OpsCapacity
    /\ driver' = [driver EXCEPT
                    !.channel_ops = Append(@, Operation(number, "Eof", None, <<>>, ""))]
    /\ UNCHANGED <<packets_to_send, channel_updates, mux_rest, function_vars,
                   transport_vars>>

InitDriver ==
    /\ ChannelsIdle
    /\ args = <<>>
    /\ returned = <<>>
    /\ NoTransport
    /\ driver = ServerConnection_new

NextDriver ==
    \/ DriverNextUpdate
    \/ DriverSendResumes
    \/ DriverSendOffData
    \/ \E updates \in ReadUpdates : SocketRead(updates)
    \/ SocketEof
    \/ SelectChannelOp
    \/ \E n \in 0..(MaxDriverChannels - 1) : HostTaskRecv(n)
    \/ \E n \in 0..(MaxDriverChannels - 1) : HostTaskSendOp(n)

SpecDriver == InitDriver /\ [][NextDriver]_vars

(***************************************************************************)
(* C27: back-pressure is per channel: while the bounded update queue       *)
(* (capacity 10) of one channel is full, progress still delivers the       *)
(* updates of other channels, still reads the socket and still accepts the *)
(* operations of the host; only the delivery to that channel waits.        *)
(***************************************************************************)
\* the driver holds an update for channel `number`, whose queue is full
C27_Waits(number) == driver.at = "send" /\ driver.held.number = number

\* the next update of the multiplexer is for another channel, whose queue has room
C27_OtherPending(number) ==
    /\ channel_updates # <<>>
    /\ Head(channel_updates).number # number
    /\ Head(channel_updates).number \in DOMAIN driver.queues
    /\ HasRoom(Head(channel_updates).number)

\* C27: while the delivery to a full channel waits, the driver can deliver the
\* pending update of another channel, read the socket and accept an operation
C27_BackPressurePerChannel ==
    \A number \in DOMAIN driver.queues :
        C27_Waits(number)
            => /\ ENABLED (\E updates \in ReadUpdates : SocketRead(updates))
               /\ driver.channel_ops # <<>> => ENABLED SelectChannelOp
               /\ C27_OtherPending(number) => ENABLED DriverNextUpdate

\* the delivery to a full channel waits while an update for another channel, whose
\* queue has room, is pending and an operation of the host is queued
C27_WaitsWithOthersPending ==
    \E number \in DOMAIN driver.queues :
        /\ C27_Waits(number)
        /\ Len(driver.queues[number]) = UpdateCapacity
        /\ C27_OtherPending(number)
        /\ driver.channel_ops # <<>>

\* while the driver waits for room in a queue, nothing but a task of the host
\* taking an update or queueing an operation can happen
C27_WholeDriverWaits ==
    [][driver.at = "send"
         => \/ driver'.at = "send" /\ UNCHANGED <<channel_updates, packets_to_send>>
            \/ /\ driver'.at = "updates"
               /\ Len(driver.queues[driver.held.number]) < UpdateCapacity
               /\ UNCHANGED <<channel_updates, packets_to_send>>]_vars

(***************************************************************************)
(* C28: the transport enables the EXT_INFO exchange (may_send_extensions   *)
(* true in state ServiceRequest) only when the kex name-list of the        *)
(* client's KEXINIT contained ext-info-c; otherwise an EXT_INFO before     *)
(* SERVICE_REQUEST is rejected as an unexpected packet.                    *)
(***************************************************************************)
\* NameList::contains
Contains(name_list, name) == \E i \in DOMAIN Split(name_list) : Split(name_list)[i] = name

\* the KEXINIT packets of the client that the server has accepted
AcceptedKexInits ==
    {i \in DOMAIN transport_log.handled :
        /\ transport_log.handled[i].before.name = "KeyExchangeInit"
        /\ transport_log.handled[i].after.name = "DhKeyInit"}

\* an accepted KEXINIT of the client listed ext-info-c
ClientAdvertisedExtInfo ==
    \E i \in AcceptedKexInits :
        Contains(KexInitContents[transport_log.handled[i].payload[2]].kex_algorithms, ExtInfoC)

\* C28: the state ServiceRequest is entered with may_send_extensions true only
\* for a client that listed ext-info-c, and the EXT_INFO of any other client is
\* rejected as an unexpected packet
C28_ExtInfoOnlyIfAdvertised ==
    \A i \in DOMAIN transport_log.handled :
        LET e == transport_log.handled[i] IN
        /\ (e.before.name = "NewKeys" /\ e.after.name = "ServiceRequest")
              => (e.after.may_send_extensions => ClientAdvertisedExtInfo)
        /\ (e.before.name = "ServiceRequest" /\ packet_type(e.payload) = SSH_MSG_EXT_INFO
              /\ ~ClientAdvertisedExtInfo)
              => e.err = ExpectedServiceRequest

\* the EXT_INFO of a client that did not list ext-info-c was accepted
C28_AcceptedUnadvertised ==
    /\ ~ClientAdvertisedExtInfo
    /\ \E i \in InServiceRequest :
          /\ transport_log.handled[i].payload = <<SSH_MSG_EXT_INFO, 0>>
          /\ transport_log.handled[i].err = "Ok"

\* the state ServiceRequest is always entered with may_send_extensions true
C28_AlwaysEnabled ==
    \A i \in DOMAIN transport_log.handled :
        LET e == transport_log.handled[i] IN
        (e.before.name = "NewKeys" /\ e.after.name = "ServiceRequest")
            => e.after.may_send_extensions

(***************************************************************************)
(* SpecParser: one PacketParser under the plaintext keys.  The input is a  *)
(* frame followed by the first bytes of the next one; it is handed to      *)
(* recv_bytes in pieces of every length, each call getting what the calls  *)
(* before it have not consumed, until a packet or an error is returned.    *)
(* Some frames carry a length field no packet may have.                    *)
(***************************************************************************)
\* how many bytes of the next frame follow the frame in the input
MaxFollowing == 2

\* the first bytes that follow a frame with the length field `len`
Body(len, n) == [i \in 1..n |-> (len + i) % 256]

\* frames as to_bytes makes them, short frames, and the start of frames whose
\* length field is zero or 35,001
ParserFrames ==
    {to_bytes(<<21>>), to_bytes(<<2, 0, 0, 0, 1, 9>>)}
    \cup {to_be_bytes(len) \o Body(len, len) : len \in {1, 3}}
    \cup {to_be_bytes(0), to_be_bytes(35001) \o Body(1, 6)}

ParserInputs ==
    {[frame |-> frame, input |-> ClearBytes(frame \o Body(0, n))] :
        frame \in ParserFrames, n \in 0..MaxFollowing}

\* no call has been made
NoCall == [before |-> 0, n |-> 0, complete |-> FALSE, consumed |-> 0, raw |-> <<>>,
           err |-> "Ok", panic |-> FALSE, held |-> 0]

InitParser ==
    /\ ChannelsIdle
    /\ NoDriver
    /\ NoTransport
    /\ args \in ParserInputs
    /\ returned = [parser |-> PacketParser_new, offset |-> 0, calls |-> 0,
                   split_length |-> FALSE, last |-> NoCall]

\* the call returned a packet or an error, or aborted
ParserDone == returned.last.complete \/ returned.last.err # "Ok" \/ returned.last.panic

\* PacketParser::recv_bytes with the next n bytes of the input; None means that
\* the parser has taken them all
ParserRecvBytes(n) ==
    /\ ~ParserDone
    /\ n \in 1..(Len(args.input) - returned.offset)
    /\ LET bytes == SubSeq(args.input, returned.offset + 1, returned.offset + n)
           r == recv_bytes_inner(returned.parser, bytes, Plaintext, 0)
           err == IF r.complete THEN decrypt_packet_check(Plaintext, r.raw, 0) ELSE "Ok"
       IN  returned' =
              [parser |-> r.parser,
               offset |-> returned.offset + (IF r.complete THEN r.consumed ELSE n),
               calls |-> returned.calls + 1,
               split_length |-> returned.split_length \/ returned.offset + n < 4,
               last |-> [before |-> returned.offset, n |-> n, complete |-> r.complete,
                         consumed |-> r.consumed, raw |-> r.raw, err |-> err,
                         panic |-> r.panic, held |-> Len(r.parser.raw_data)]]
    /\ UNCHANGED <<channel_layer, args, transport_vars, driver_vars>>

NextParser == \E n \in 1..Len(args.input) : ParserRecvBytes(n)

SpecParser == InitParser /\ [][NextParser]_vars

(***************************************************************************)
(* C29: PacketParser is independent of how the input is split: whatever    *)
(* the division of the bytes of a framed packet over successive recv_bytes *)
(* calls (a split inside the 4 length bytes included), the parser returns  *)
(* None until 4 + packet_length bytes have accumulated, then a raw packet  *)
(* holding exactly those bytes; the consumed count is the number of bytes  *)
(* taken from the input of the current call, and bytes after the end of    *)
(* the packet are not consumed.                                            *)
(***************************************************************************)
\* 4 + packet_length of the frame of the input
FullLength == 4 + from_be_bytes(args.frame)

\* C29: a call returns None while fewer than 4 + packet_length bytes have been
\* given, and otherwise the raw packet of exactly these bytes with the count of
\* the bytes it took from its own input, leaving the bytes that follow
C29_SplitIndependent ==
    LET last == returned.last IN
    returned.calls > 0 =>
        /\ ~last.panic
        /\ last.complete <=> last.before + last.n >= FullLength
        /\ last.complete =>
              /\ last.raw = SubSeq(args.input, 1, FullLength)
              /\ last.consumed = FullLength - last.before
              /\ last.consumed <= last.n
              /\ returned.offset = FullLength
        /\ ~last.complete => returned.offset = last.before + last.n

\* a packet whose length bytes came in two calls was returned by a call that
\* was given bytes of the next packet too
C29_Witness ==
    /\ returned.last.complete
    /\ returned.split_length
    /\ returned.calls >= 3
    /\ returned.last.consumed < returned.last.n
    /\ args.frame = to_bytes(<<21>>)

(***************************************************************************)
(* C30: the framer rejects with an error every packet whose (decrypted)    *)
(* length field is zero or greater than 35,000, and it does so when the    *)
(* length is read, without accumulating the body bytes of such a packet.   *)
(***************************************************************************)
\* the last call is the one that completed the four length bytes
LengthJustRead ==
    /\ returned.calls > 0
    /\ returned.last.before < 4
    /\ returned.last.before + returned.last.n >= 4

\* the call returned an error and the parser holds no byte of a body
RejectedAtLength == returned.last.err # "Ok" /\ returned.last.held <= 4

\* C30: the call that reads a length field of zero or of more than 35,000 returns
\* an error and keeps no body byte
C30_LengthChecked ==
    (LengthJustRead /\ (FullLength - 4 = 0 \/ FullLength - 4 > 35000)) => RejectedAtLength

\* a length field of zero is rejected by the call that reads it: from_raw finds
\* the packet empty
C30_ZeroRejected ==
    (LengthJustRead /\ FullLength - 4 = 0)
        => returned.last.err = EmptyPacket /\ returned.last.held = 0

\* a length field of zero was read in two pieces and rejected
C30_WitnessZero ==
    /\ LengthJustRead /\ FullLength - 4 = 0
    /\ returned.calls = 2
    /\ returned.last.err = EmptyPacket

\* a length field of 35,001 has been read and bytes of the body are kept
C30_BodyKept ==
    /\ FullLength - 4 > 35000
    /\ returned.last.err = "Ok"
    /\ ~returned.last.complete
    /\ returned.last.held > 4

(***************************************************************************)
(* SpecCounter: the channel counter over a connection.  The peer opens     *)
(* session channels, confirms, refuses and closes channels, the host       *)
(* creates channels.  The counter starts at 0, or two below its largest    *)
(* value as after a long connection whose earlier channels are all gone.   *)
(***************************************************************************)
CounterStarts == {0, U32Max - 1}

\* the numbers a packet of the peer may name: the channels of the table, the
\* last number handed out and the next one
CounterNumbers ==
    DOMAIN channels
    \cup {n \in {next_channel_id - 1, next_channel_id} : n >= 0 /\ n <= U32Max}

InitCounter ==
    /\ packets_to_send = <<>>
    /\ channel_updates = <<>>
    /\ channels = [n \in {} |-> 0]
    /\ next_channel_id \in CounterStarts
    /\ is_server = TRUE
    /\ result = "None"
    /\ panicked = FALSE
    /\ out_log = <<>>
    /\ upd_log = <<>>
    /\ hist = [n \in {} |-> 0]
    /\ steps = 0
    /\ last_call = Call("new", NoChannel, "")
    /\ close_called = {}
    /\ budget = MaxSteps
    /\ args = <<>>
    /\ returned = <<>>
    /\ NoTransport
    /\ NoDriver

NextCounter ==
    \/ \E s \in PeerChannels : RecvChannelOpen("session", s, 1, 1)
    \/ CreateChannel
    \/ \E n \in CounterNumbers, s \in PeerChannels : RecvChannelOpenConfirmation(n, s, 1, 1)
    \/ \E n \in CounterNumbers : RecvChannelOpenFailure(n)
    \/ \E n \in CounterNumbers : RecvChannelClose(n)

SpecCounter == InitCounter /\ [][NextCounter]_vars

\* the numbers handed out so far, in order: every allocation pushes one
\* CHANNEL_OPEN_CONFIRMATION (inbound open) or CHANNEL_OPEN (create_channel)
\* that carries the number
Allocations ==
    SelectSeq(out_log, LAMBDA e : e.packet.type \in {"CHANNEL_OPEN_CONFIRMATION",
                                                     "CHANNEL_OPEN"})

\* each number handed out is above every number handed out before it, and
\* the counter is above all of them
C31_Increasing ==
    /\ \A i, j \in 1..Len(Allocations) :
          i < j => Allocations[i].packet.sender < Allocations[j].packet.sender
    /\ \A i \in 1..Len(Allocations) : Allocations[i].packet.sender < next_channel_id
    /\ \A n \in DOMAIN channels : n < next_channel_id

\* an inbound open and create_channel take the counter's value and move the
\* counter up by one
C31_OneCounter ==
    Len(Allocations') > Len(Allocations)
        => /\ Len(Allocations') = Len(Allocations) + 1
           /\ Allocations'[Len(Allocations')].packet.sender = next_channel_id
           /\ next_channel_id' = next_channel_id + 1
           /\ DOMAIN channels' = DOMAIN channels \cup {next_channel_id}

\* an inbound open at the exhausted counter is an error and inserts nothing
C31_Exhausted ==
    (next_channel_id = U32Max /\ last_call'.kind = "CHANNEL_OPEN" /\ last_call' # last_call)
        => /\ result' = ProtocolError
           /\ UNCHANGED <<channels, next_channel_id, packets_to_send, channel_updates>>

\* C31: channel numbers come from one counter that only moves up, shared by
\* inbound CHANNEL_OPEN and create_channel: no number is handed out twice in a
\* connection, also after the first channel was closed or its open refused,
\* and an inbound CHANNEL_OPEN at the exhausted counter returns an error
\* without inserting a channel
C31_FreshNumbers ==
    [][C31_Increasing' /\ C31_OneCounter /\ C31_Exhausted]_vars

\* a channel was closed and a channel's open refused, and later channels got
\* other numbers; and an open was refused at the exhausted counter
C31_Witness ==
    /\ Len(Allocations) = 2
    /\ DOMAIN channels = {Allocations[2].packet.sender}
    /\ Allocations[1].packet.type # Allocations[2].packet.type

C31_WitnessExhausted ==
    /\ next_channel_id = U32Max
    /\ last_call.kind = "CHANNEL_OPEN"
    /\ result = ProtocolError
    /\ Len(Allocations) = 1

(***************************************************************************)
(* SpecSeq: the framer late in a connection.  As SpecFramer, with the      *)
(* receive sequence number and the peer's send sequence number both at 0   *)
(* or both two below the largest 32-bit number, as after that many         *)
(* packets.                                                                *)
(***************************************************************************)
SeqStarts == {0, U32Max - 1}

InitSeq ==
    /\ ChannelsIdle
    /\ NoDriver
    /\ args = <<>>
    /\ returned = <<>>
    /\ server_state = "None"
    /\ plaintext_packets = <<>>
    /\ \E seq \in SeqStarts :
          /\ packet_transport = [PacketTransport_new EXCEPT !.next_recv_seq_nr = seq]
          /\ client = [keys |-> Plaintext, seq |-> seq]
    /\ wire = <<>>
    /\ transport_log = [frames |-> <<>>, delivered |-> 0, installs |-> <<>>]

SpecSeq == InitSeq /\ [][NextFramer]_vars

\* C32: the receive sequence number handed to the cipher is a 32-bit
\* counter: it is always below 2^32 and wraps to 0 after the packet numbered
\* 2^32 - 1
C32_SequenceNumber32Bit == packet_transport.next_recv_seq_nr <= U32Max

\* the counter has left the 32 bits, and the next frame of a peer whose own
\* counter wrapped is not understood: its length is read with the wrong
\* sequence number and the frame is never completed
C32_PastThe32Bits ==
    /\ packet_transport.next_recv_seq_nr = U32Max + 1
    /\ client.seq = 1
    /\ \A i \in 1..Len(transport_log.frames) : transport_log.frames[i].ok
    /\ wire = <<>>
    /\ packet_transport.next_packet.packet_length
          = from_be_bytes(<<Garbage, Garbage, Garbage, Garbage>>)

\* what the code keeps: the counter moves up by one for every framed packet
\* and stays within its 64 bits
C32_CountsEveryPacket ==
    [][packet_transport'.next_recv_seq_nr - packet_transport.next_recv_seq_nr
         = Len(packet_transport'.packets) - Len(packet_transport.packets)
       \/ Len(packet_transport'.packets) < Len(packet_transport.packets)]_vars

(***************************************************************************)
(* C33 (under SpecFlow): work conservation.                                *)
(***************************************************************************)
\* bytes wait in the default queue or in an extended queue of the channel
C33_Queued(channel) ==
    \/ channel.queued_data_default # <<>>
    \/ \E code \in DOMAIN channel.queued_data_extended :
          channel.queued_data_extended[code] # <<>>

\* C33: after every recv_packet and do_operation that returns, every open
\* channel with bytes in its default queue or in an extended queue has a peer
\* window of 0: outbound bytes are not held back while the window has room
C33_WorkConservation ==
    ~panicked =>
        \A n \in DOMAIN channels :
            (channels[n].state = "Open" /\ C33_Queued(channels[n]))
                => channels[n].peer_window_size = 0

\* a grant smaller than the queues has been used up: packets went out, bytes
\* of both streams still wait
C33_Witness ==
    /\ last_call.name = "recv_packet"
    /\ last_call.kind = "CHANNEL_WINDOW_ADJUST"
    /\ result = "Ok"
    /\ ~panicked
    /\ \E n \in DOMAIN channels :
          /\ channels[n].state = "Open"
          /\ channels[n].queued_data_default # <<>>
          /\ \E code \in DOMAIN channels[n].queued_data_extended :
                channels[n].queued_data_extended[code] # <<>>
          /\ channels[n].peer_window_size = 0
          /\ hist[n].granted > 0

(***************************************************************************)
(* C34 (under SpecFlow): data after our CHANNEL_CLOSE.                     *)
(***************************************************************************)
\* C34: once a CHANNEL_CLOSE has been emitted for a channel, no CHANNEL_DATA
\* or CHANNEL_EXTENDED_DATA is emitted for it, whatever the peer sends (grants
\* while bytes are queued included) and the host does afterwards
C34_NoDataAfterClose ==
    \A i, j \in 1..Len(out_log) :
        (/\ i < j
         /\ out_log[i].number = out_log[j].number
         /\ out_log[i].packet.type = "CHANNEL_CLOSE")
            => ~IsDataPacket(out_log[j].packet)

\* the host closed a channel with bytes queued, and the grant that followed
\* sent them
C34_DrainedAfterClose ==
    /\ last_call.name = "recv_packet"
    /\ last_call.kind = "CHANNEL_WINDOW_ADJUST"
    /\ result = "Ok"
    /\ \E n \in DOMAIN channels :
          /\ channels[n].we_closed
          /\ \E i \in 1..Len(out_log) :
                /\ out_log[i].number = n
                /\ out_log[i].packet.type = "CHANNEL_CLOSE"
                /\ i < Len(out_log)
                /\ IsDataPacket(out_log[Len(out_log)].packet)
                /\ out_log[Len(out_log)].number = n
                /\ out_log[Len(out_log)].at > out_log[i].at

(***************************************************************************)
(* SpecOrder: the order of data and the end of a channel.  The peer opens  *)
(* a channel with a window of 0 or 1 byte and grants window; the host      *)
(* sends data on both streams, Eof and Close.                              *)
(***************************************************************************)
OrderWindows == {0, 1}
OrderLens == {1, 2}

OrderOperations ==
    {Operation(n, k, None, <<>>, "") : n \in LiveNumbers, k \in {"Eof", "Close"}}
    \cup {Operation(n, "Data", None, Payload(n, l), "") : n \in LiveNumbers, l \in OrderLens}
    \cup {Operation(n, "ExtendedData", 1, Payload(n, 1), "") : n \in LiveNumbers}

NextOrder ==
    \/ /\ NoChannelYet
       /\ \E s \in PeerChannels, w \in OrderWindows : RecvChannelOpen("session", s, w, 1)
    \/ \E n \in LiveNumbers : RecvChannelWindowAdjust(n, 1)
    \/ \E op \in OrderOperations : DoOperation(op)

SpecOrder == InitFlow /\ [][NextOrder]_vars

\* the call is a host Eof or Close on channel n that pushes its packet
C35_Ends(n) ==
    /\ last_call' # last_call
    /\ last_call'.name = "do_operation"
    /\ last_call'.number = n
    /\ last_call'.kind \in {"Eof", "Close"}
    /\ Len(out_log') = Len(out_log) + 1
    /\ out_log'[Len(out_log')].packet.type \in {"CHANNEL_EOF", "CHANNEL_CLOSE"}

\* every byte the host has submitted on the channel has gone out
C35_AllSent(n) ==
    \A stream \in Streams : DataSent(n, stream) = hist[n].submitted[stream]

C35_NoDataAfterEof ==
    \A i, j \in 1..Len(out_log) :
        (/\ i < j
         /\ out_log[i].number = out_log[j].number
         /\ out_log[i].packet.type = "CHANNEL_EOF")
            => out_log[j].packet.type # "CHANNEL_DATA"

\* C35: a host Eof or Close does not overtake data: every byte passed to a
\* Data or ExtendedData operation before it is in a data packet before the
\* CHANNEL_EOF or CHANNEL_CLOSE, bytes queued for lack of window included,
\* and no CHANNEL_DATA of a channel follows its CHANNEL_EOF
C35_NoOvertaking ==
    [][/\ \A n \in LiveNumbers : C35_Ends(n) => C35_AllSent(n)
       /\ C35_NoDataAfterEof']_vars

\* CHANNEL_EOF went out while a submitted byte waited, and the byte went out
\* after it
C35_Overtaken ==
    \E i \in 1..Len(out_log) :
        /\ out_log[i].packet.type = "CHANNEL_EOF"
        /\ i < Len(out_log)
        /\ out_log[Len(out_log)].packet.type = "CHANNEL_DATA"
        /\ out_log[Len(out_log)].number = out_log[i].number
        /\ out_log[Len(out_log)].packet.data = <<1>>
        /\ last_call.kind = "CHANNEL_WINDOW_ADJUST"

\* what the code keeps: the bytes of a stream go out in the order submitted
C35_StreamOrder ==
    \A n \in DOMAIN hist : \A stream \in Streams :
        DataSent(n, stream) = SubSeq(hist[n].submitted[stream], 1, Len(DataSent(n, stream)))

(***************************************************************************)
(* SpecTotal: every kind of call on the multiplexer with the smallest      *)
(* field values.  The peer sends packets of every message type, with       *)
(* windows, packet sizes, grants and data lengths of 0 and 1, naming any   *)
(* number up to the next one; the host creates channels and issues every   *)
(* operation, every request variant and data of 0 and 1 bytes.             *)
(***************************************************************************)
TotalSizes == {0, 1}
TotalRequests == {"shell", "bogus"}

TotalOperations ==
    {Operation(n, k, None, <<>>, "") :
        n \in NamedNumbers, k \in {"Success", "Failure", "Eof", "Close"}}
    \cup {Operation(n, "Request", None, <<>>, r) : n \in NamedNumbers, r \in HostRequests}
    \cup {Operation(n, "Data", None, Payload(n, l), "") : n \in NamedNumbers, l \in TotalSizes}
    \cup {Operation(n, "ExtendedData", 1, Payload(n, l), "") :
            n \in NamedNumbers, l \in TotalSizes}

NextTotal ==
    \/ RecvMalformed
    \/ RecvGlobalRequest
    \/ RecvUnsupported
    \/ \E t \in ChannelTypes, s \in PeerChannels, w \in TotalSizes, m \in TotalSizes :
          RecvChannelOpen(t, s, w, m)
    \/ \E n \in NamedNumbers, s \in PeerChannels, w \in TotalSizes, m \in TotalSizes :
          RecvChannelOpenConfirmation(n, s, w, m)
    \/ \E n \in NamedNumbers : RecvChannelOpenFailure(n)
    \/ \E n \in NamedNumbers, b \in TotalSizes : RecvChannelWindowAdjust(n, b)
    \/ \E n \in NamedNumbers, l \in TotalSizes : RecvChannelData(n, l)
    \/ \E n \in NamedNumbers, l \in TotalSizes : RecvChannelExtendedData(n, 1, l)
    \/ \E n \in NamedNumbers, k \in {"Eof", "Success"} : RecvChannelSignal(n, k)
    \/ \E n \in NamedNumbers : RecvChannelClose(n)
    \/ \E n \in NamedNumbers, t \in TotalRequests : RecvChannelRequest(n, t, TRUE)
    \/ CreateChannel
    \/ \E op \in TotalOperations : DoOperation(op)

InitTotal == Init /\ is_server = TRUE /\ budget = MaxTotalSteps

SpecTotal == InitTotal /\ [][NextTotal]_vars

\* C36: recv_packet is total on what the peer sends: for every message type
\* and field value (a grant of 0, a CHANNEL_OPEN with window or packet size 0)
\* in every reachable state it returns Ok or Err and does not abort through
\* an assertion, unwrap or todo!
C36_RecvPacketTotal == ~(panicked /\ last_call.name = "recv_packet")

\* a grant of 0 on a channel with queued bytes aborts in send_data
C36_AbortsOnGrantOfZero ==
    /\ panicked
    /\ last_call.name = "recv_packet"
    /\ last_call.kind = "CHANNEL_WINDOW_ADJUST"
    /\ channel_ok(last_call.number)
    /\ channels[last_call.number].peer_window_size = 0
    /\ channels[last_call.number].peer_max_packet_size > 0
    /\ channels[last_call.number].queued_data_default # <<>>

\* a message type without a match arm aborts in todo!
C36_AbortsOnUnsupported ==
    /\ panicked
    /\ last_call.name = "recv_packet"
    /\ last_call.kind \in {"unsupported", "CHANNEL_EXTENDED_DATA"}
    /\ steps = 0

(***************************************************************************)
(* C37 (under SpecTotal): do_operation on what the host passes.            *)
(***************************************************************************)
\* C37: do_operation is total on what the host passes: for every operation
\* (Data and ExtendedData with no bytes, every request variant), every
\* channel number and every reachable state (channels whose peer takes
\* packets of 0 bytes included) it returns
C37_DoOperationTotal == ~(panicked /\ last_call.name = "do_operation")

\* Data with no bytes on an open channel aborts in send_data's assertion
C37_AbortsOnEmptyData ==
    /\ panicked
    /\ last_call.name = "do_operation"
    /\ last_call.kind \in {"Data", "ExtendedData"}
    /\ channel_ok(last_call.number)
    /\ channels[last_call.number].peer_max_packet_size > 0
    /\ channels[last_call.number].peer_window_size > 0

\* a channel whose peer announced a maximum packet size of 0: data of one
\* byte aborts in chunks(0)
C37_AbortsOnPacketSizeZero ==
    /\ panicked
    /\ last_call.name = "do_operation"
    /\ last_call.kind = "Data"
    /\ channel_ok(last_call.number)
    /\ channels[last_call.number].peer_max_packet_size = 0
    /\ hist[last_call.number].submitted[None] = <<>>

\* the request variants without an implementation abort in todo!
C37_AbortsOnRequest ==
    /\ panicked
    /\ last_call.name = "do_operation"
    /\ last_call.kind = "Request"
    /\ channel_ok(last_call.number)

\* what the code keeps: an operation on a number that is not an open channel,
\* or on a channel the host closed, returns and changes nothing
C37_DroppedReturns ==
    [][\A op \in TotalOperations :
          (DoOperation(op) /\ Dropped(op.number))
              => /\ ~panicked'
                 /\ UNCHANGED <<channels, packets_to_send, channel_updates>>]_vars

(***************************************************************************)
(* SpecIdent: the boundary between the identification line and the first   *)
(* packet.  As SpecTransport up to the key exchange, with a client that    *)
(* writes its KEXINIT behind its identification line without waiting for   *)
(* the server (RFC 4253 7.1: key exchange begins by each side sending      *)
(* SSH_MSG_KEXINIT); the driver cuts the bytes anywhere.                   *)
(***************************************************************************)
\* the client writes its first packet; the identification line may still be
\* in flight
ClientWritesBehindIdent(payload) ==
    /\ TransportRunning
    /\ transport_log.ident # <<>>
    /\ transport_log.frames = <<>>
    /\ wire' = wire \o Encrypted(client.keys, to_bytes(payload), client.seq)
    /\ client' = [client EXCEPT !.seq = @ + 1]
    /\ transport_log' = [transport_log EXCEPT !.frames = Append(@, payload)]
    /\ UNCHANGED <<channel_layer, function_vars, driver_vars, server_state, packet_transport, plaintext_packets>>

NextIdent ==
    \/ \E line \in IdentLines : ClientWritesIdent(line)
    \/ \E f \in {1, 2} : ClientWritesBehindIdent(<<SSH_MSG_KEXINIT, f>>)
    \/ ClientWrites(<<SSH_MSG_KEX_ECDH_INIT, 1>>)
    \/ \E n \in 1..Len(wire) : RecvBytes(n)
    \/ NextMsgToSend

SpecIdent == InitTransport /\ [][NextIdent]_vars

\* the payloads of the packets handled so far
C38_Handled == [i \in 1..Len(transport_log.handled) |-> transport_log.handled[i].payload]

\* C38: no byte is lost at the identification boundary: once every byte the
\* client wrote has been passed to recv_bytes, the packets handled are the
\* packets the client wrote, wherever the calls cut the bytes, so also when
\* the line and the first bytes of KEXINIT came in one call
C38_NothingLostAtIdent ==
    (wire = <<>> /\ TransportRunning /\ transport_log.ident # <<>>)
        => C38_Handled = transport_log.frames

\* the line and the packet came in separate calls: the packet was handled
C38_SeparateCalls ==
    /\ wire = <<>>
    /\ TransportRunning
    /\ server_state.name = "DhKeyInit"
    /\ Len(transport_log.frames) = 1
    /\ C38_Handled = transport_log.frames

\* the line and the packet came in one call: the connection still waits for
\* KEXINIT with nothing of the packet in the framer
C38_PacketSwallowed ==
    /\ wire = <<>>
    /\ TransportRunning
    /\ server_state.name = "KeyExchangeInit"
    /\ Len(transport_log.frames) = 1
    /\ transport_log.handled = <<>>
    /\ packet_transport.next_packet = PacketParser_new
    /\ Len(server_state.client_identification) = Len(transport_log.ident) + 16

(***************************************************************************)
(* SpecKex: the driver's progress() around the key exchange.  progress()   *)
(* starts the host's do_key_exchange callback in a task of its own, sends  *)
(* off what is queued and then waits in select! for bytes of the socket,   *)
(* for an operation of the host or for the result of a callback.  The      *)
(* client writes its line and the packets of the handshake, in any order   *)
(* and with an SSH_MSG_IGNORE anywhere; the callback completes at any      *)
(* time after it was started.                                              *)
(***************************************************************************)
\* the fields of the driver that take part: where progress() is ("top" of an
\* iteration, "select", "failed" after it returned an error), the flag, the
\* callbacks running, the operations queue, the channel operations queued,
\* and the counts of callbacks started and responses delivered
KexDriver(at, in_progress, running, operations, channel_ops, started, delivered) ==
    [at |-> at, signature_in_progress |-> in_progress, running |-> running,
     operations |-> operations, channel_ops |-> channel_ops,
     started |-> started, delivered |-> delivered]

\* variant: the callback is started whenever the transport waits for it
starts_whenever_waiting(in_progress, state_name) == state_name = "WaitingForKeyExchange"

\* "if let Some(params) = self.proto.is_waiting_on_key_exchange() {
\*      if !self.signature_in_progress {"
starts_key_exchange(in_progress, state_name) ==
    state_name = "WaitingForKeyExchange" /\ ~in_progress

\* the client's packets: the handshake, a service request, an ignored packet
KexPayloads ==
    {<<SSH_MSG_KEXINIT, 1>>, <<SSH_MSG_KEX_ECDH_INIT, 1>>, <<SSH_MSG_NEWKEYS>>,
     <<SSH_MSG_SERVICE_REQUEST, 1>>, <<SSH_MSG_IGNORE, 0>>}

InitKex ==
    /\ ChannelsIdle
    /\ args = <<>>
    /\ returned = <<>>
    /\ server_state = ProtoExchange(<<>>)
    /\ packet_transport = ServerTransport_new
    /\ plaintext_packets = <<>>
    /\ wire = <<>>
    /\ client = [keys |-> Plaintext, seq |-> 0]
    /\ transport_log = [ident |-> <<>>, frames |-> <<>>, exchange |-> <<>>, msgs |-> <<>>, handled |-> <<>>, pipelined |-> 0, host |-> 0]
    /\ driver = KexDriver("top", FALSE, 0, <<>>, 0, 0, 0)

\* progress() up to the select!: the callback is spawned if the transport
\* waits for the key exchange and none is in progress
KexProgressTop ==
    /\ TransportRunning
    /\ driver.at = "top"
    /\ driver' = IF starts_key_exchange(driver.signature_in_progress, server_state.name)
                 THEN [driver EXCEPT !.at = "select", !.signature_in_progress = TRUE,
                                     !.running = @ + 1, !.started = @ + 1]
                 ELSE [driver EXCEPT !.at = "select"]
    /\ UNCHANGED <<channel_layer, function_vars, transport_vars>>

\* the spawned task: the callback returns and its result is sent to the
\* operations queue
KexCallbackCompletes(h, ok) ==
    /\ driver.running > 0
    /\ driver' = [driver EXCEPT !.running = @ - 1,
                                !.operations = Append(@, [ok |-> ok, hash |-> h])]
    /\ UNCHANGED <<channel_layer, function_vars, transport_vars>>

\* select!, "read = self.stream.read(..)": the bytes go to recv_bytes
KexSelectRead(n) ==
    /\ TransportRunning
    /\ driver.at = "select"
    /\ packet_transport.send_packets = <<>>
    /\ n \in Pieces
    /\ Return(ServerConnection_recv_bytes(TheConn, SubSeq(wire, 1, n)))
    /\ wire' = SubSeq(wire, n + 1, Len(wire))
    /\ driver' = [driver EXCEPT !.at = "top"]
    /\ UNCHANGED <<packets_to_send, channel_updates, channels, next_channel_id, is_server, out_log, upd_log, hist, steps, budget, last_call, close_called>>
    /\ UNCHANGED <<function_vars, client>>

\* select!, "op = self.operations_recv.recv()": a response is passed to
\* ServerConnection::do_key_exchange, whose other match arm is unreachable!;
\* an error of the callback ends progress()
KexSelectOperation ==
    /\ TransportRunning
    /\ driver.at = "select"
    /\ packet_transport.send_packets = <<>>
    /\ driver.operations # <<>>
    /\ LET op == Head(driver.operations) IN
       IF ~op.ok
       THEN /\ driver' = [driver EXCEPT !.at = "failed", !.operations = Tail(@)]
            /\ UNCHANGED <<transport_vars, panicked>>
       ELSE /\ driver' = [driver EXCEPT !.at = "top", !.operations = Tail(@),
                                        !.delivered = @ + 1]
            /\ IF server_state.name = "WaitingForKeyExchange"
               THEN Stored(do_key_exchange(TheConn, op.hash, 1), FALSE) /\ UNCHANGED panicked
               ELSE panicked' = TRUE /\ UNCHANGED <<server_state, packet_transport, plaintext_packets, transport_log>>
            /\ UNCHANGED <<wire, client>>
    /\ UNCHANGED <<packets_to_send, channel_updates, channels, next_channel_id, is_server, result, out_log, upd_log, hist, steps, budget, last_call, close_called>>
    /\ UNCHANGED function_vars

\* a host task sends a channel operation, once the connection is open
KexHostSendsOp ==
    /\ TransportRunning
    /\ server_state.name = "Open"
    /\ driver.channel_ops = 0
    /\ driver' = [driver EXCEPT !.channel_ops = 1]
    /\ UNCHANGED <<channel_layer, function_vars, transport_vars>>

\* select!, "channel_op = self.channel_ops_recv.recv()": the operation goes to
\* the channels, the transport is not touched
KexSelectChannelOp ==
    /\ TransportRunning
    /\ driver.at = "select"
    /\ packet_transport.send_packets = <<>>
    /\ driver.channel_ops > 0
    /\ driver' = [driver EXCEPT !.at = "top", !.channel_ops = @ - 1]
    /\ UNCHANGED <<channel_layer, function_vars, transport_vars>>

NextKex ==
    \/ \E line \in IdentLines : ClientWritesIdent(line)
    \/ \E payload \in KexPayloads : ClientWrites(payload)
    \/ KexProgressTop
    \/ \E h \in Hashes, ok \in BOOLEAN : KexCallbackCompletes(h, ok)
    \/ \E n \in 1..Len(wire) : KexSelectRead(n)
    \/ KexSelectOperation
    \/ KexHostSendsOp
    \/ KexSelectChannelOp
    \/ NextMsgToSend

SpecKex == InitKex /\ [][NextKex]_vars

\* the messages queued by the step
C39_NewMsgs == SubSeq(transport_log'.msgs, Len(transport_log.msgs) + 1, Len(transport_log'.msgs))

\* a response is delivered while the transport waits for it, the transport
\* moves to NewKeys and queues one KEX_ECDH_REPLY
C39_Delivery ==
    driver'.delivered > driver.delivered
        => /\ server_state.name = "WaitingForKeyExchange"
           /\ server_state'.name = "NewKeys"
           /\ Len(C39_NewMsgs) = 1
           /\ packet_type(C39_NewMsgs[1].payload) = SSH_MSG_KEX_ECDH_REPLY

\* C39: whatever the order of socket reads, callback completion and host
\* operations, the do_key_exchange callback is started at most once per key
\* exchange, its response reaches ServerConnection::do_key_exchange only in
\* WaitingForKeyExchange (the unreachable! arm is not reached), and the
\* delivery moves the state to NewKeys and queues exactly one KEX_ECDH_REPLY
C39_KeyExchangeOnce ==
    [][/\ driver'.started <= 1
       /\ ~panicked'
       /\ C39_Delivery]_vars

\* the client's ignored packet was read while the callback ran, progress()
\* came by again, and the response was delivered afterwards
C39_Witness ==
    /\ driver.started = 1
    /\ driver.delivered = 1
    /\ server_state.name = "NewKeys"
    /\ \E i \in DOMAIN transport_log.handled :
          /\ transport_log.handled[i].payload = <<SSH_MSG_IGNORE, 0>>
          /\ transport_log.handled[i].before.name = "WaitingForKeyExchange"

\* the connection went on to Open and a host operation was taken
C39_WitnessOpen ==
    /\ driver.delivered = 1
    /\ server_state.name = "Open"
    /\ driver.at = "top"
    /\ driver.channel_ops = 0
    /\ driver.started = 1
    /\ driver.signature_in_progress

(***************************************************************************)
(* SpecQueues: the two bounded queues between the driver and the task of   *)
(* one channel.  The peer opens channel 0 and sends data, one or two       *)
(* packets a read; the task receives updates and sends operations in any   *)
(* order, and waits in its send while the operations queue is full.        *)
(***************************************************************************)
\* what one read brings: the opening of channel 0, then data for it
QueueReads ==
    IF 0 \notin DOMAIN driver.queues
    THEN {<<ChannelUpdate(0, "Open", "Session", 0)>>}
    ELSE {<<ChannelUpdate(0, "Data", "", 1)>>,
          <<ChannelUpdate(0, "Data", "", 1), ChannelUpdate(0, "Data", "", 1)>>}

\* Sender::send(op).await on channel_ops_send has room
OpsHasRoom == Len(driver.channel_ops) < OpsCapacity

\* the task of a channel sends an operation: it is queued, or the task waits
\* until the operations queue has room
HostTaskSends(number) ==
    /\ driver.at # "failed"
    /\ number \in DOMAIN driver.queues
    /\ number \notin driver.blocked
    /\ driver' = IF OpsHasRoom
                 THEN [driver EXCEPT !.channel_ops =
                          Append(@, Operation(number, "Eof", None, <<>>, ""))]
                 ELSE [driver EXCEPT !.blocked = @ \cup {number}]
    /\ UNCHANGED <<packets_to_send, channel_updates, mux_rest, function_vars,
                   transport_vars>>

\* the send the task waited in completes once the operations queue has room
HostTaskSendResumes(number) ==
    /\ driver.at # "failed"
    /\ number \in driver.blocked
    /\ OpsHasRoom
    /\ driver' = [driver EXCEPT
                    !.channel_ops = Append(@, Operation(number, "Eof", None, <<>>, "")),
                    !.blocked = @ \ {number}]
    /\ UNCHANGED <<packets_to_send, channel_updates, mux_rest, function_vars,
                   transport_vars>>

NextQueues ==
    \/ DriverNextUpdate
    \/ DriverSendResumes
    \/ DriverSendOffData
    \/ \E updates \in QueueReads : SocketRead(updates)
    \/ SelectChannelOp
    \/ HostTaskRecv(0)
    \/ HostTaskSends(0)
    \/ HostTaskSendResumes(0)

SpecQueues == InitDriver /\ [][NextQueues]_vars

\* progress() waits in the send of an update for a channel whose queue is full
C40_DriverBlocked ==
    /\ driver.at = "send"
    /\ Len(driver.queues[driver.held.number]) = UpdateCapacity

\* the task that reads that queue waits in the send of an operation, the
\* operations queue being full
C40_HostBlocked ==
    /\ driver.held.number \in driver.blocked
    /\ Len(driver.channel_ops) = OpsCapacity

\* C40: the driver and a host task do not deadlock on their bounded queues:
\* no state is reached in which progress() waits to send an update into a full
\* update queue while the task that reads the queue waits to send an operation
\* into the full operations queue
C40_NoQueueDeadlock == ~(C40_DriverBlocked /\ C40_HostBlocked)

\* in that state no step is possible: neither send ever completes
C40_StuckForGood ==
    (C40_DriverBlocked /\ C40_HostBlocked) => ~ENABLED NextQueues

\* what the code keeps: while progress() is in its select!, an operation
\* queued by a task can be taken
C40_AcceptedInSelect ==
    (driver.at = "select" /\ driver.channel_ops # <<>>) => ENABLED SelectChannelOp

====
